---- MODULE Spec2Model ----
(***************************************************************************)
(* Room inference of the floor-plan editor (client/src/utils/rooms.ts):    *)
(* buildRoomsFromWalls traces the faces of the wall graph over a rotation  *)
(* system and keeps one winding group per connected component.             *)
(*                                                                         *)
(* Coordinates are integers, so every product and sum of the source's      *)
(* floating-point arithmetic is exact; areas are kept doubled (area2 =     *)
(* 2 * area) to stay in the integers.  Math.atan2 is compared exactly:     *)
(* two directions compare equal exactly when they are the same direction.  *)
(***************************************************************************)
EXTENDS Integers, Sequences, FiniteSets, TLC

VARIABLES
    nodes,      \* NodePoint[]: sequence of [id, x, y]
    walls,      \* Wall[]: sequence of [id, a, b]
    pc,         \* position inside buildRoomsFromWalls
    adjacency,  \* Map<number, number[]>: [keys: insertion order, nbrs: lists]
    angleMap,   \* Map<number, number[]>: neighbours sorted by angle
    step,       \* number of directed edges already offered as a trace start
    visited,    \* Set of directed edges <<u, v>>
    faces,      \* traced faces: sequence of [nodeIds, points, area2]
    rooms,      \* the returned Room[]: sequence of [id, nodeIds, points]
    previous,   \* what the calls before this one returned, on the same lists
    safety,     \* the step count of the last trace when its loop was left
    closed,     \* whether the last trace came back to its starting edge
    metrics,    \* a call of the inner metrics: arguments, position, result
    app         \* the editor: the plan, the id counters and the refs of useHistory

vars ==
    <<nodes, walls, pc, adjacency, angleMap, step, visited, faces, rooms, previous,
      safety, closed, metrics, app>>

\* no call of the inner metrics is under way, the editor is not mounted
Resting == [pc |-> "rest"]

-----------------------------------------------------------------------------
(* Generic helpers *)

Range(s) == {s[i] : i \in DOMAIN s}

InSeq(x, s) == \E i \in DOMAIN s : s[i] = x

Abs(n) == IF n < 0 THEN -n ELSE n

\* [...new Set(list)]: first occurrences, in insertion order
RECURSIVE DedupFrom(_, _, _)
DedupFrom(s, i, acc) ==
    IF i > Len(s) THEN acc
    ELSE DedupFrom(s, i + 1, IF InSeq(s[i], acc) THEN acc ELSE Append(acc, s[i]))

Dedup(s) == DedupFrom(s, 1, <<>>)

\* list.indexOf(x), 1-based; 0 when absent
IndexOf(s, x) ==
    IF InSeq(x, s) THEN CHOOSE i \in DOMAIN s : s[i] = x /\ \A j \in 1..(i - 1) : s[j] # x
    ELSE 0

\* Second(first): the first half of a loop is worked out to its value
\* before the second half starts from it
After2(first, Second(_)) == CHOOSE r \in {Second(v) : v \in {first}} : TRUE

\* the sum of s[lo], ..., s[hi]; the range is halved so that a long list
\* is summed without deep nesting
RECURSIVE SumRange(_, _, _)
SumRange(s, lo, hi) ==
    IF lo > hi THEN 0
    ELSE IF lo = hi THEN s[lo]
    ELSE LET mid == (lo + hi) \div 2
         IN SumRange(s, lo, mid) + SumRange(s, mid + 1, hi)

SumSeq(s, i) == SumRange(s, i, Len(s))

RECURSIVE Flatten(_, _)
Flatten(ss, i) == IF i > Len(ss) THEN <<>> ELSE ss[i] \o Flatten(ss, i + 1)

-----------------------------------------------------------------------------
(* nodeMap and adjacency *)

\* the value nextNeighbor returns for null; node ids are >= 1
NoNode == 0

\* new Map(nodes.map((node) => [node.id, node])): the last entry of an id wins
HasNode(ns, id) == \E i \in DOMAIN ns : ns[i].id = id

NodeMapGet(ns, id) ==
    ns[CHOOSE i \in DOMAIN ns : ns[i].id = id /\ \A j \in (i + 1)..Len(ns) : ns[j].id # id]

AdjGet(adj, n) == IF InSeq(n, adj.keys) THEN adj.nbrs[n] ELSE <<>>

AdjPush(adj, n, m) ==
    [keys |-> adj.keys, nbrs |-> [adj.nbrs EXCEPT ![n] = Append(@, m)]]

AdjEnsure(adj, n) ==
    IF InSeq(n, adj.keys) THEN adj
    ELSE [keys |-> Append(adj.keys, n), nbrs |-> (n :> <<>>) @@ adj.nbrs]

\* the body of walls.forEach for one wall
AdjAddWall(adj, w) ==
    LET e == AdjEnsure(AdjEnsure(adj, w.a), w.b)
    IN AdjPush(AdjPush(e, w.a, w.b), w.b, w.a)

\* walls.forEach over the walls lo..hi, in order; the range is halved so
\* that a long wall list is walked without deep nesting
RECURSIVE AdjacencyFrom(_, _, _, _)
AdjacencyFrom(ws, lo, hi, adj) ==
    IF lo > hi THEN adj
    ELSE IF lo = hi THEN AdjAddWall(adj, ws[lo])
    ELSE LET mid == (lo + hi) \div 2
         IN After2(AdjacencyFrom(ws, lo, mid, adj),
                   LAMBDA first : AdjacencyFrom(ws, mid + 1, hi, first))

BuildAdjacency(ws) == AdjacencyFrom(ws, 1, Len(ws), [keys |-> <<>>, nbrs |-> <<>>])

-----------------------------------------------------------------------------
(* angleMap: the rotation system *)

\* where Math.atan2(dy, dx) lies in (-pi, pi]: 0 = (-pi, 0), 1 = {0},
\* 2 = (0, pi), 3 = {pi}; atan2(0, 0) = 0
AngleClass(dx, dy) ==
    IF dy < 0 THEN 0
    ELSE IF dy > 0 THEN 2
    ELSE IF dx >= 0 THEN 1 ELSE 3

\* sign of Math.atan2(ay, ax) - Math.atan2(by, bx)
AngleCmp(ax, ay, bx, by) ==
    LET ca == AngleClass(ax, ay)
        cb == AngleClass(bx, by)
        cross == ax * by - ay * bx
    IN IF ca # cb THEN (IF ca < cb THEN -1 ELSE 1)
       ELSE IF ca \in {1, 3} THEN 0
       ELSE IF cross > 0 THEN -1
       ELSE IF cross < 0 THEN 1 ELSE 0

\* the comparator handed to sort: 0 when an end is missing from nodeMap
CompareNeighbors(ns, node, a, b) ==
    IF ~HasNode(ns, a) \/ ~HasNode(ns, b) THEN 0
    ELSE LET na == NodeMapGet(ns, a)
             nb == NodeMapGet(ns, b)
         IN AngleCmp(na.x - node.x, na.y - node.y, nb.x - node.x, nb.y - node.y)

\* Array.prototype.sort is stable: each element goes behind the elements
\* that do not compare greater than it
RECURSIVE InsertSorted(_, _, _, _, _)
InsertSorted(ns, node, sorted, x, k) ==
    IF k = 0 \/ CompareNeighbors(ns, node, sorted[k], x) <= 0
    THEN SubSeq(sorted, 1, k) \o <<x>> \o SubSeq(sorted, k + 1, Len(sorted))
    ELSE InsertSorted(ns, node, sorted, x, k - 1)

RECURSIVE SortFrom(_, _, _, _, _)
SortFrom(ns, node, list, i, sorted) ==
    IF i > Len(list) THEN sorted
    ELSE SortFrom(ns, node, list, i + 1,
                  InsertSorted(ns, node, sorted, list[i], Len(sorted)))

SortByAngle(ns, node, list) == SortFrom(ns, node, list, 1, <<>>)

\* mutant: a node missing from nodeMap gets its neighbours, unsorted
BuildAngleMapForAll(ns, adj) ==
    [n \in Range(adj.keys) |->
        IF HasNode(ns, n) THEN SortByAngle(ns, NodeMapGet(ns, n), Dedup(adj.nbrs[n]))
        ELSE Dedup(adj.nbrs[n])]

\* mutant: the neighbours of a node are sorted as they were pushed, a
\* neighbour behind two walls twice
BuildAngleMapListed(ns, adj) ==
    [n \in {k \in Range(adj.keys) : HasNode(ns, k)} |->
        SortByAngle(ns, NodeMapGet(ns, n), adj.nbrs[n])]

BuildAngleMap(ns, adj) ==
    [n \in {k \in Range(adj.keys) : HasNode(ns, k)} |->
        SortByAngle(ns, NodeMapGet(ns, n), Dedup(adj.nbrs[n]))]

\* polygonArea without the final division: twice the signed area
PolygonArea2(points) ==
    SumSeq([i \in DOMAIN points |->
              LET a == points[i]
                  b == points[(i % Len(points)) + 1]
              IN a.x * b.y - b.x * a.y], 1)

-----------------------------------------------------------------------------
(* Face tracing *)

\* while (safety < 500)
SafetyLimit == 500

NextNeighbor(am, nodeId, fromId) ==
    IF nodeId \notin DOMAIN am THEN NoNode
    ELSE LET list == am[nodeId]
             index == IndexOf(list, fromId)
         IN IF Len(list) < 2 \/ index = 0 THEN NoNode
            ELSE list[((index - 2 + Len(list)) % Len(list)) + 1]

\* one round of the while loop on its state s: the loop variables, and
\* stopped once the loop has been left
TraceRound(limit, am, startU, startV, s) ==
    IF s.stopped THEN s
    ELSE IF s.safety >= limit THEN [s EXCEPT !.stopped = TRUE]
    ELSE LET traversed2 == Append(s.traversed, <<s.currentU, s.currentV>>)
             path2 == Append(s.path, s.currentV)
             next == NextNeighbor(am, s.currentV, s.currentU)
         IN IF next = NoNode
            THEN [s EXCEPT !.path = path2, !.traversed = traversed2,
                           !.safety = @ + 1, !.stopped = TRUE]
            ELSE IF s.currentV = startU /\ next = startV
            THEN [s EXCEPT !.path = path2, !.traversed = traversed2,
                           !.safety = @ + 1, !.closed = TRUE, !.stopped = TRUE]
            ELSE [s EXCEPT !.currentU = s.currentV, !.currentV = next,
                           !.path = path2, !.traversed = traversed2,
                           !.safety = @ + 1]

\* k rounds in a row; the count is halved so that a long trace is walked
\* without deep nesting
RECURSIVE TraceRounds(_, _, _, _, _, _)
TraceRounds(limit, am, startU, startV, s, k) ==
    IF s.stopped \/ k = 0 THEN s
    ELSE IF k = 1 THEN TraceRound(limit, am, startU, startV, s)
    ELSE After2(TraceRounds(limit, am, startU, startV, s, k \div 2),
                LAMBDA half : TraceRounds(limit, am, startU, startV, half, k - (k \div 2)))

\* the while loop under a bound on safety: the test of the bound is round
\* limit + 1 - taken at the latest, taken being the rounds done before
TraceLoopWithin(limit, am, startU, startV, currentU, currentV, path, traversed, taken) ==
    LET s == [currentU |-> currentU, currentV |-> currentV, path |-> path,
              traversed |-> traversed, safety |-> taken,
              closed |-> FALSE, stopped |-> FALSE]
        end == TraceRounds(limit, am, startU, startV, s, limit + 1 - taken)
    IN [closed |-> end.closed, path |-> end.path, traversed |-> end.traversed,
        safety |-> end.safety]

\* mutant: the loop runs up to twice as many rounds
TraceLoopLonger(am, startU, startV, currentU, currentV, path, traversed, taken) ==
    TraceLoopWithin(2 * SafetyLimit, am, startU, startV, currentU, currentV, path,
                    traversed, taken)

\* the while loop of one trace; path and traversed grow by one per round
TraceLoop(am, startU, startV, currentU, currentV, path, traversed, taken) ==
    TraceLoopWithin(SafetyLimit, am, startU, startV, currentU, currentV, path,
                    traversed, taken)

Trace(am, startU, startV) ==
    TraceLoop(am, startU, startV, startU, startV, <<startU>>, <<>>, 0)

\* mutant: one entry too many is cut off the path
CycleOfShort(path) == SubSeq(path, 1, Len(path) - 2)

\* path.slice(0, -1)
CycleOf(path) == SubSeq(path, 1, Len(path) - 1)

\* cycle.map(nodeMap.get).filter(Boolean).map(({x, y}) => ...)
PointsOf(ns, cycle) ==
    LET present == SelectSeq(cycle, LAMBDA id : HasNode(ns, id))
    IN [i \in DOMAIN present |->
          [x |-> NodeMapGet(ns, present[i]).x, y |-> NodeMapGet(ns, present[i]).y]]

\* mutant: a face of any area is kept
AnyArea(area2) == Abs(area2) >= 0

\* Math.abs(area) > 0.0001, with area = area2 / 2
AboveEpsilon(area2) == Abs(area2) * 5000 > 1

\* the candidate face of a closed trace: <<face>> or <<>>
FaceOf(ns, path) ==
    LET cycle == CycleOf(path)
        points == PointsOf(ns, cycle)
        area2 == PolygonArea2(points)
    IN IF Len(points) >= 3 /\ AboveEpsilon(area2)
       THEN <<[nodeIds |-> cycle, points |-> points, area2 |-> area2]>>
       ELSE <<>>

\* mutant: the traversed edges of a closed trace are not marked visited
TraceDirectionUnmarked(ns, am, st, startU, startV) ==
    IF <<startU, startV>> \in st.visited THEN st
    ELSE LET t == Trace(am, startU, startV)
         IN IF t.closed /\ Len(t.path) >= 4
            THEN [visited |-> st.visited, faces |-> st.faces \o FaceOf(ns, t.path),
                  safety |-> t.safety, closed |-> t.closed]
            ELSE [st EXCEPT !.safety = t.safety, !.closed = t.closed]

\* one round of directions.forEach on the tracing state st = [visited, faces]
TraceDirection(ns, am, st, startU, startV) ==
    IF <<startU, startV>> \in st.visited THEN st
    ELSE LET t == Trace(am, startU, startV)
         IN IF t.closed /\ Len(t.path) >= 4
            THEN [visited |-> st.visited \cup Range(t.traversed),
                  faces |-> st.faces \o FaceOf(ns, t.path),
                  safety |-> t.safety, closed |-> t.closed]
            ELSE [st EXCEPT !.safety = t.safety, !.closed = t.closed]

\* the k-th directed edge offered as a start: wall order, a->b before b->a
StartU(ws, k) == IF k % 2 = 1 THEN ws[(k + 1) \div 2].a ELSE ws[(k + 1) \div 2].b
StartV(ws, k) == IF k % 2 = 1 THEN ws[(k + 1) \div 2].b ELSE ws[(k + 1) \div 2].a

RECURSIVE TraceAll(_, _, _, _, _)
TraceAll(ns, am, ws, k, st) ==
    IF k > 2 * Len(ws) THEN st
    ELSE TraceAll(ns, am, ws, k + 1,
                  TraceDirection(ns, am, st, StartU(ws, k), StartV(ws, k)))

-----------------------------------------------------------------------------
(* Connected components and the winding filter *)

\* k layers of the BFS on b = [frontier, seen]: the neighbours of the
\* frontier not seen before are the next frontier; the count is halved so
\* that a long chain is walked without deep nesting
RECURSIVE BfsLayers(_, _, _)
BfsLayers(adj, b, k) ==
    IF b.frontier = {} \/ k = 0 THEN b
    ELSE IF k = 1
    THEN LET reached == UNION {Range(AdjGet(adj, n)) : n \in b.frontier} \ b.seen
         IN [frontier |-> reached, seen |-> b.seen \cup reached]
    ELSE After2(BfsLayers(adj, b, k \div 2),
                LAMBDA half : BfsLayers(adj, half, k - (k \div 2)))

\* the BFS from one node: every node reachable over adjacency
Bfs(adj, frontier, seen) ==
    BfsLayers(adj, [frontier |-> frontier, seen |-> seen], Len(adj.keys)).seen

\* adjacency.forEach over the keys lo..hi: a node not yet assigned starts
\* the next component
RECURSIVE ComponentsFrom(_, _, _, _)
ComponentsFrom(adj, lo, hi, comps) ==
    IF lo > hi THEN comps
    ELSE IF lo = hi
    THEN IF \E c \in DOMAIN comps : adj.keys[lo] \in comps[c]
         THEN comps
         ELSE Append(comps, Bfs(adj, {adj.keys[lo]}, {adj.keys[lo]}))
    ELSE LET mid == (lo + hi) \div 2
         IN After2(ComponentsFrom(adj, lo, mid, comps),
                   LAMBDA first : ComponentsFrom(adj, mid + 1, hi, first))

\* componentByNode: component ids count from 0
ComponentByNode(adj) ==
    LET comps == ComponentsFrom(adj, 1, Len(adj.keys), <<>>)
    IN [n \in Range(adj.keys) |-> (CHOOSE c \in DOMAIN comps : n \in comps[c]) - 1]

\* mutant: every face is filed under one component
FaceComponentShared(cbn, face) == 0

\* componentByNode.get(face.nodeIds[0]) ?? -1
FaceComponent(cbn, face) ==
    IF face.nodeIds[1] \in DOMAIN cbn THEN cbn[face.nodeIds[1]] ELSE -1

\* facesByComponent: the groups in the order their first face was traced
FacesByComponent(fs, cbn) ==
    LET keys == Dedup([i \in DOMAIN fs |-> FaceComponent(cbn, fs[i])])
    IN [k \in DOMAIN keys |->
          SelectSeq(fs, LAMBDA f : FaceComponent(cbn, f) = keys[k])]

\* mutant: the areas are summed without Math.abs
TotalSignedArea(group) == SumSeq([i \in DOMAIN group |-> group[i].area2], 1)

TotalAbsArea(group) == SumSeq([i \in DOMAIN group |-> Abs(group[i].area2)], 1)

\* mutant: no winding filter, the whole group is kept
KeepWholeGroup(group) == group

\* mutant: the winding with fewer faces is preferred
PreferFewerFaces(group) ==
    LET positive == SelectSeq(group, LAMBDA f : f.area2 > 0)
        negative == SelectSeq(group, LAMBDA f : f.area2 < 0)
    IN IF Len(group) <= 1 THEN group
       ELSE IF Len(positive) = 0 \/ Len(negative) = 0 THEN group
       ELSE IF Len(negative) < Len(positive) THEN negative
       ELSE IF Len(negative) = Len(positive)
               /\ TotalAbsArea(negative) < TotalAbsArea(positive) THEN negative
       ELSE positive

\* mutant: on equal counts the group with the larger total area is preferred
PreferLargerArea(group) ==
    LET positive == SelectSeq(group, LAMBDA f : f.area2 > 0)
        negative == SelectSeq(group, LAMBDA f : f.area2 < 0)
    IN IF Len(group) <= 1 THEN group
       ELSE IF Len(positive) = 0 \/ Len(negative) = 0 THEN group
       ELSE IF Len(negative) > Len(positive) THEN negative
       ELSE IF Len(negative) = Len(positive)
               /\ TotalAbsArea(negative) > TotalAbsArea(positive) THEN negative
       ELSE positive

\* the body of facesByComponent.forEach: what one group adds to filtered
PreferredFaces(group) ==
    LET positive == SelectSeq(group, LAMBDA f : f.area2 > 0)
        negative == SelectSeq(group, LAMBDA f : f.area2 < 0)
    IN IF Len(group) <= 1 THEN group
       ELSE IF Len(positive) = 0 \/ Len(negative) = 0 THEN group
       ELSE IF Len(negative) > Len(positive) THEN negative
       ELSE IF Len(negative) = Len(positive)
               /\ TotalAbsArea(negative) < TotalAbsArea(positive) THEN negative
       ELSE positive

\* mutant: the preferred faces are returned in the order of tracing
FilterFacesInTracingOrder(fs, adj) ==
    LET groups == FacesByComponent(fs, ComponentByNode(adj))
        kept == UNION {Range(PreferredFaces(groups[k])) : k \in DOMAIN groups}
    IN SelectSeq(fs, LAMBDA f : f \in kept)

FilterFaces(fs, adj) ==
    LET groups == FacesByComponent(fs, ComponentByNode(adj))
    IN Flatten([k \in DOMAIN groups |-> PreferredFaces(groups[k])], 1)

\* filtered.map((face, index) => ({ id: index + 1, ... })); the name
\* "Комната <id>" is a function of the id and is left out
ToRooms(filtered) ==
    [i \in DOMAIN filtered |->
       [id |-> i, nodeIds |-> filtered[i].nodeIds, points |-> filtered[i].points]]

\* the part of buildRoomsFromWalls after the tracing
RoomsOfFaces(fs, adj) ==
    IF Len(fs) = 0 THEN <<>> ELSE ToRooms(FilterFaces(fs, adj))

\* buildRoomsFromWalls(nodes, walls), as one function
BuildRoomsFromWalls(ns, ws) ==
    LET adj == BuildAdjacency(ws)
        am == BuildAngleMap(ns, adj)
        st == TraceAll(ns, am, ws, 1, [visited |-> {}, faces |-> <<>>, safety |-> 0, closed |-> FALSE])
    IN RoomsOfFaces(st.faces, adj)

-----------------------------------------------------------------------------
(* Inputs *)

\* most walls of a graph drawn over a layout
MaxWalls == 8

MkNodes(layout) ==
    [i \in DOMAIN layout |-> [id |-> i, x |-> layout[i][1], y |-> layout[i][2]]]

\* a triangle 1-2-3 with nodes 4 and 5 inside it; no three nodes collinear
LayoutNested == <<<<0, 0>>, <<3, 1>>, <<1, 3>>, <<2, 1>>, <<1, 2>>>>

\* a square 1-2-3-4 with node 5 at its centre
LayoutSquare == <<<<0, 0>>, <<2, 0>>, <<2, 2>>, <<0, 2>>, <<1, 1>>>>

\* a triangle 1-2-3 with node 4 inside it, and a triangle 5-6-7 beside it
LayoutIslands ==
    <<<<0, 0>>, <<4, 0>>, <<0, 4>>, <<1, 1>>, <<6, 0>>, <<10, 0>>, <<6, 4>>>>

\* every pair of five nodes, in lexicographic order
AllPairs ==
    <<<<1, 2>>, <<1, 3>>, <<1, 4>>, <<1, 5>>, <<2, 3>>,
      <<2, 4>>, <<2, 5>>, <<3, 4>>, <<3, 5>>, <<4, 5>>>>

\* the two triangles, a wall into the first one, and a bridge between them
IslandPairs ==
    <<<<1, 2>>, <<1, 3>>, <<1, 4>>, <<2, 3>>, <<2, 5>>, <<5, 6>>, <<5, 7>>, <<6, 7>>>>

\* the two triangles with two walls into the first one, the walls of the
\* two components listed in turn
MixedPairs ==
    <<<<1, 2>>, <<5, 6>>, <<1, 4>>, <<5, 7>>, <<2, 4>>, <<6, 7>>, <<1, 3>>, <<2, 3>>>>

Families ==
    <<[layout |-> LayoutNested, pairs |-> AllPairs],
      [layout |-> LayoutSquare, pairs |-> AllPairs],
      [layout |-> LayoutIslands, pairs |-> IslandPairs],
      [layout |-> LayoutIslands, pairs |-> MixedPairs]>>

Reverse(s) == [i \in DOMAIN s |-> s[Len(s) + 1 - i]]

\* the walls over the pairs chosen, listed forwards as a -> b, or listed
\* backwards with every wall turned round
MkWalls(pairs, chosen, backwards) ==
    LET idx == SelectSeq([k \in DOMAIN pairs |-> k], LAMBDA k : k \in chosen)
        ws == [i \in DOMAIN idx |->
                 [id |-> idx[i], a |-> pairs[idx[i]][1], b |-> pairs[idx[i]][2]]]
    IN IF backwards
       THEN Reverse([i \in DOMAIN ws |-> [id |-> ws[i].id, a |-> ws[i].b, b |-> ws[i].a]])
       ELSE ws

FamilyInputs(f) ==
    {[nodes |-> MkNodes(f.layout), walls |-> MkWalls(f.pairs, chosen, backwards)] :
        chosen \in {c \in SUBSET DOMAIN f.pairs : Cardinality(c) <= MaxWalls},
        backwards \in BOOLEAN}

LayoutInputs == UNION {FamilyInputs(Families[k]) : k \in DOMAIN Families}

N(id, x, y) == [id |-> id, x |-> x, y |-> y]
W(id, a, b) == [id |-> id, a |-> a, b |-> b]

\* the graphs of rooms.test.ts, coordinates rounded to integers
TestSharedWallNodes ==
    <<N(1, 899, 204), N(2, 846, 258), N(3, 967, 290), N(4, 979, 219), N(5, 1074, 259),
      N(7, 1045, 222), N(8, 1044, 311), N(9, 934, 186), N(10, 999, 174)>>

TestSharedWallWalls ==
    <<W(1, 1, 2), W(2, 3, 4), W(3, 4, 1), W(4, 2, 3), W(6, 5, 7),
      W(7, 7, 4), W(8, 3, 8), W(9, 8, 5), W(10, 1, 9), W(11, 7, 10)>>

TestDanglingNodes ==
    <<N(1, 957, 197), N(2, 957, 285), N(3, 1077, 303), N(4, 1077, 202),
      N(5, 1051, 355), N(6, 995, 142)>>

TestDanglingWalls ==
    <<W(1, 1, 2), W(2, 3, 4), W(3, 1, 5), W(4, 5, 3), W(5, 4, 2), W(6, 1, 6)>>

TestAdjacentNodes ==
    <<N(7, 852, 129), N(8, 776, 187), N(9, 811, 270), N(10, 926, 207),
      N(11, 854, 261), N(12, 918, 258), N(13, 892, 271)>>

TestAdjacentWalls ==
    <<W(7, 7, 8), W(8, 9, 7), W(9, 8, 9), W(10, 7, 10), W(11, 9, 11),
      W(12, 10, 12), W(13, 11, 13), W(14, 13, 12)>>

TestSeparateNodes ==
    TestAdjacentNodes \o <<N(14, 1037, 199), N(15, 1011, 241), N(16, 1057, 252)>>

TestSeparateWalls ==
    TestAdjacentWalls \o <<W(15, 14, 15), W(16, 15, 16), W(17, 14, 16)>>

TestInputs ==
    {[nodes |-> TestSharedWallNodes, walls |-> TestSharedWallWalls],
     [nodes |-> TestDanglingNodes, walls |-> TestDanglingWalls],
     [nodes |-> TestAdjacentNodes, walls |-> TestAdjacentWalls],
     [nodes |-> TestSeparateNodes, walls |-> TestSeparateWalls]}

\* the ids left out of a node list that the walls still refer to: a corner
\* of the outer triangle, a node inside it, every node
MissingSets == {{1}, {5}, {1, 2, 3, 4, 5}}

Without(ns, gone) == SelectSeq(ns, LAMBDA n : n.id \notin gone)

\* graphs whose walls refer to nodes that are not in the node list
MissingInputs ==
    {[nodes |-> Without(MkNodes(LayoutNested), gone),
      walls |-> MkWalls(AllPairs, chosen, FALSE)] :
        chosen \in {c \in SUBSET DOMAIN AllPairs : Cardinality(c) <= MaxWalls},
        gone \in MissingSets}

Inputs == LayoutInputs \cup TestInputs \cup MissingInputs

-----------------------------------------------------------------------------
(* buildRoomsFromWalls as a state machine *)

\* calls of the function on one pair of lists
MaxCalls == 2

Init ==
    /\ \E input \in Inputs : nodes = input.nodes /\ walls = input.walls
    /\ pc = "start"
    /\ adjacency = [keys |-> <<>>, nbrs |-> <<>>]
    /\ angleMap = <<>>
    /\ step = 0
    /\ visited = {}
    /\ faces = <<>>
    /\ rooms = <<>>
    /\ previous = <<>>
    /\ safety = 0
    /\ closed = FALSE
    /\ metrics = Resting
    /\ app = Resting

\* mutant: angleMap is built without the test for a node missing from
\* nodeMap, and reading its position raises
BuildGraphRaising ==
    /\ pc = "start"
    /\ adjacency' = BuildAdjacency(walls)
    /\ IF \A n \in Range(adjacency'.keys) : HasNode(nodes, n)
       THEN angleMap' = BuildAngleMap(nodes, adjacency') /\ pc' = "trace"
       ELSE angleMap' = <<>> /\ pc' = "raised"
    /\ UNCHANGED <<nodes, walls, step, visited, faces, rooms, previous, safety, closed>>
    /\ UNCHANGED <<metrics, app>>

\* nodeMap, adjacency and angleMap are built
BuildGraph ==
    /\ pc = "start"
    /\ adjacency' = BuildAdjacency(walls)
    /\ angleMap' = BuildAngleMap(nodes, adjacency')
    /\ pc' = "trace"
    /\ UNCHANGED <<nodes, walls, step, visited, faces, rooms, previous, safety, closed>>
    /\ UNCHANGED <<metrics, app>>

\* one round of directions.forEach: the next directed edge is offered as a
\* start; after the last one the tracing is over
TraceNext ==
    /\ pc = "trace"
    /\ step < 2 * Len(walls)
    /\ LET st == TraceDirection(nodes, angleMap,
                                [visited |-> visited, faces |-> faces,
                                 safety |-> safety, closed |-> closed],
                                StartU(walls, step + 1), StartV(walls, step + 1))
       IN /\ visited' = st.visited
          /\ faces' = st.faces
          /\ safety' = st.safety
          /\ closed' = st.closed
    /\ step' = step + 1
    /\ UNCHANGED <<nodes, walls, pc, adjacency, angleMap, rooms, previous>>
    /\ UNCHANGED <<metrics, app>>

\* if (!faces.length) return []
ReturnEmpty ==
    /\ pc = "trace"
    /\ step = 2 * Len(walls)
    /\ Len(faces) = 0
    /\ rooms' = <<>>
    /\ pc' = "done"
    /\ UNCHANGED <<nodes, walls, adjacency, angleMap, step, visited, faces, previous, safety, closed>>
    /\ UNCHANGED <<metrics, app>>

\* components, winding filter and the numbering of the rooms
ReturnRooms ==
    /\ pc = "trace"
    /\ step = 2 * Len(walls)
    /\ Len(faces) > 0
    /\ rooms' = ToRooms(FilterFaces(faces, adjacency))
    /\ pc' = "done"
    /\ UNCHANGED <<nodes, walls, adjacency, angleMap, step, visited, faces, previous, safety, closed>>
    /\ UNCHANGED <<metrics, app>>

\* mutant: the visited set outlives the call
CallAgainKeepingVisited ==
    /\ pc = "done"
    /\ Len(previous) < MaxCalls - 1
    /\ previous' = Append(previous, rooms)
    /\ pc' = "start"
    /\ adjacency' = [keys |-> <<>>, nbrs |-> <<>>]
    /\ angleMap' = <<>>
    /\ step' = 0
    /\ faces' = <<>>
    /\ rooms' = <<>>
    /\ safety' = 0
    /\ closed' = FALSE
    /\ UNCHANGED <<nodes, walls, visited>>
    /\ UNCHANGED <<metrics, app>>

\* the function is called again with the same lists: every local of the
\* call before is gone, the lists are the ones that were passed before
CallAgain ==
    /\ pc = "done"
    /\ Len(previous) < MaxCalls - 1
    /\ previous' = Append(previous, rooms)
    /\ pc' = "start"
    /\ adjacency' = [keys |-> <<>>, nbrs |-> <<>>]
    /\ angleMap' = <<>>
    /\ step' = 0
    /\ visited' = {}
    /\ faces' = <<>>
    /\ rooms' = <<>>
    /\ safety' = 0
    /\ closed' = FALSE
    /\ UNCHANGED <<nodes, walls>>
    /\ UNCHANGED <<metrics, app>>

Next == BuildGraph \/ TraceNext \/ ReturnEmpty \/ ReturnRooms \/ CallAgain

\* a closed loop of n nodes around a strip of height 1: the nodes 1, 2, ...
\* along the bottom and back along the top
LoopNodes(n) ==
    [i \in 1..n |->
       IF i <= (n + 1) \div 2 THEN N(i, i - 1, 0) ELSE N(i, n - i, 1)]

LoopWalls(n) == [i \in 1..n |-> W(i, i, (i % n) + 1)]

\* a triangle beside a loop of n nodes, its walls listed behind the loop's
CornerNodes(n) == <<N(n + 1, 0, 3), N(n + 2, 2, 3), N(n + 3, 0, 5)>>

CornerWalls(n) ==
    <<W(n + 1, n + 1, n + 2), W(n + 2, n + 2, n + 3), W(n + 3, n + 1, n + 3)>>

\* loops that take exactly as many steps as the safety bound allows, and one
\* step more, the longer one also after a triangle beside it
LongInputs ==
    {[nodes |-> LoopNodes(SafetyLimit), walls |-> LoopWalls(SafetyLimit)],
     [nodes |-> LoopNodes(SafetyLimit + 1), walls |-> LoopWalls(SafetyLimit + 1)],
     [nodes |-> LoopNodes(SafetyLimit + 1) \o CornerNodes(SafetyLimit + 1),
      walls |-> CornerWalls(SafetyLimit + 1) \o LoopWalls(SafetyLimit + 1)]}

InitLong ==
    /\ \E input \in LongInputs \cup TestInputs :
           nodes = input.nodes /\ walls = input.walls
    /\ pc = "start"
    /\ adjacency = [keys |-> <<>>, nbrs |-> <<>>]
    /\ angleMap = <<>>
    /\ step = 0
    /\ visited = {}
    /\ faces = <<>>
    /\ rooms = <<>>
    /\ previous = <<>>
    /\ safety = 0
    /\ closed = FALSE
    /\ metrics = Resting
    /\ app = Resting

\* the position of a call moves on: the next step of the body is taken.
\* Every step of BuildGraph, TraceNext, ReturnEmpty and ReturnRooms is such
\* a move, and a move is possible until the call has returned.
Advance ==
    /\ pc \in {"start", "trace"}
    /\ pc' \in {"trace", "done"}
    /\ step' \in {step, step + 1}
    /\ <<pc', step'>> # <<pc, step>>

\* a call that has begun runs on: one synchronous function body
FairSpecLong ==
    /\ InitLong
    /\ [][Next]_vars
    /\ WF_<<pc, step>>(Advance)

Spec == Init /\ [][Next]_vars

\* the state machine returns what the function returns
StepsAgree == pc = "done" => rooms = BuildRoomsFromWalls(nodes, walls)

-----------------------------------------------------------------------------
(* Vocabulary of the properties *)

Done == pc = "done"

RoomCycles == {rooms[i].nodeIds : i \in DOMAIN rooms}

IsWallPair(ws, u, v) == \E i \in DOMAIN ws : {ws[i].a, ws[i].b} = {u, v}

\* the entry after entry i of a cycle, the first one after the last
After(cycle, i) == cycle[(i % Len(cycle)) + 1]

Rotation(cycle, k) == [i \in DOMAIN cycle |-> cycle[((i + k - 1) % Len(cycle)) + 1]]

\* equal up to rotation and reversal
SameCycle(c, d) ==
    /\ Len(c) = Len(d)
    /\ \E k \in DOMAIN c : Rotation(c, k) = d \/ Rotation(Reverse(c), k) = d

WallEnds(ws) == UNION {{ws[i].a, ws[i].b} : i \in DOMAIN ws}

Degree(ws, n) == Cardinality({i \in DOMAIN ws : n \in {ws[i].a, ws[i].b}})

NeighborSet(ws, n) ==
    {m \in WallEnds(ws) : m # n /\ IsWallPair(ws, n, m)}

\* no wall from a node to itself and no two walls over one pair
SimpleGraph(ws) ==
    /\ \A i \in DOMAIN ws : ws[i].a # ws[i].b
    /\ \A i, j \in DOMAIN ws : i # j => {ws[i].a, ws[i].b} # {ws[j].a, ws[j].b}

\* the connected component of the wall graph around the nodes of S
RECURSIVE Closure(_, _)
Closure(ws, S) ==
    LET T == S \cup UNION {NeighborSet(ws, n) : n \in S}
    IN IF T = S THEN S ELSE Closure(ws, T)

ComponentSets(ws) == {Closure(ws, {n}) : n \in WallEnds(ws)}

WallsOf(ws, comp) == SelectSeq(ws, LAMBDA w : w.a \in comp)

-----------------------------------------------------------------------------
(* Plane geometry of the properties *)

Sign(n) == IF n > 0 THEN 1 ELSE IF n < 0 THEN -1 ELSE 0

Min(a, b) == IF a < b THEN a ELSE b
Max(a, b) == IF a > b THEN a ELSE b

\* which side of the line p -> q the point r lies on
Orient(p, q, r) == Sign((q.x - p.x) * (r.y - p.y) - (q.y - p.y) * (r.x - p.x))

OnSegment(r, p, q) ==
    /\ Orient(p, q, r) = 0
    /\ Min(p.x, q.x) <= r.x /\ r.x <= Max(p.x, q.x)
    /\ Min(p.y, q.y) <= r.y /\ r.y <= Max(p.y, q.y)

\* the closed segments p-q and r-t have a point in common
SegmentsMeet(p, q, r, t) ==
    \/ /\ Orient(p, q, r) * Orient(p, q, t) < 0
       /\ Orient(r, t, p) * Orient(r, t, q) < 0
    \/ OnSegment(r, p, q) \/ OnSegment(t, p, q)
    \/ OnSegment(p, r, t) \/ OnSegment(q, r, t)

\* two walls are drawn apart: without a common node they do not meet, with
\* one common node they meet only there
WallsApart(ns, v, w) ==
    LET P(id) == NodeMapGet(ns, id)
        shared == {v.a, v.b} \cap {w.a, w.b}
    IN IF shared = {} THEN ~SegmentsMeet(P(v.a), P(v.b), P(w.a), P(w.b))
       ELSE IF Cardinality(shared) = 1
       THEN LET c == CHOOSE n \in shared : TRUE
                e == CHOOSE n \in {v.a, v.b} : n # c
                f == CHOOSE n \in {w.a, w.b} : n # c
            IN ~OnSegment(P(e), P(c), P(f)) /\ ~OnSegment(P(f), P(c), P(e))
       ELSE FALSE

\* the walls are drawn without crossing, touching or overlapping
PlanarDrawing(ns, ws) ==
    /\ SimpleGraph(ws)
    /\ \A n \in WallEnds(ws) : HasNode(ns, n)
    /\ \A n, m \in WallEnds(ws) :
           n # m => <<NodeMapGet(ns, n).x, NodeMapGet(ns, n).y>>
                      # <<NodeMapGet(ns, m).x, NodeMapGet(ns, m).y>>
    /\ \A i, j \in DOMAIN ws : i < j => WallsApart(ns, ws[i], ws[j])

\* the nodes from cur on, along nodes of degree 2, up to target; <<>> when
\* the walk runs into another node of a different degree
RECURSIVE WalkTo(_, _, _, _, _)
WalkTo(ws, prev, cur, target, acc) ==
    IF cur = target THEN Append(acc, cur)
    ELSE IF Degree(ws, cur) # 2 \/ NeighborSet(ws, cur) \ {prev} = {} THEN <<>>
    ELSE WalkTo(ws, cur, CHOOSE n \in NeighborSet(ws, cur) \ {prev} : TRUE, target,
                Append(acc, cur))

\* the two nodes where three walls meet, when the graph has exactly two
Hubs(ws) == {n \in WallEnds(ws) : Degree(ws, n) = 3}

\* the boundary cycles of the two rooms, both running hub to hub: the wall
\* between the hubs is the shared wall, each cycle is one of the two other
\* ways from hub to hub
SharedWallCycles(ws) ==
    LET u == CHOOSE n \in Hubs(ws) : \A m \in Hubs(ws) : n <= m
        v == CHOOSE n \in Hubs(ws) : n # u
        starts == NeighborSet(ws, u) \ {v}
    IN {WalkTo(ws, u, n, v, <<u>>) : n \in starts}

CyclePoints(ns, cycle) ==
    [i \in DOMAIN cycle |-> [x |-> NodeMapGet(ns, cycle[i]).x,
                             y |-> NodeMapGet(ns, cycle[i]).y]]

\* the wall graph is two cycles with exactly one wall in common and
\* nothing else
TwoCyclesSharingWall(ws) ==
    /\ SimpleGraph(ws)
    /\ Cardinality(Hubs(ws)) = 2
    /\ \A n \in WallEnds(ws) : Degree(ws, n) \in {2, 3}
    /\ \E n, m \in Hubs(ws) : n # m /\ IsWallPair(ws, n, m)
    /\ Cardinality(SharedWallCycles(ws)) = 2
    /\ <<>> \notin SharedWallCycles(ws)
    /\ UNION {Range(c) : c \in SharedWallCycles(ws)} = WallEnds(ws)

\* two rooms side by side: drawn without crossing, the two cycles lie on
\* opposite sides of their common wall (both run hub to hub, so they turn
\* opposite ways)
TwoRoomsSharingWall(ns, ws) ==
    /\ TwoCyclesSharingWall(ws)
    /\ PlanarDrawing(ns, ws)
    /\ \E c, d \in SharedWallCycles(ws) :
           Sign(PolygonArea2(CyclePoints(ns, c)))
               * Sign(PolygonArea2(CyclePoints(ns, d))) = -1

-----------------------------------------------------------------------------
(* C1: in every returned room, each cyclically consecutive pair of node   *)
(* ids, the last and the first included, is the endpoint pair of a wall   *)
(* of the input, in either direction.                                      *)
C1_RoomsFollowWalls ==
    \A r \in DOMAIN rooms :
        \A i \in DOMAIN rooms[r].nodeIds :
            IsWallPair(walls, rooms[r].nodeIds[i], After(rooms[r].nodeIds, i))

\* two rooms were returned, one of them with more than three corners
C1_Witness ==
    /\ Done
    /\ Len(rooms) >= 2
    /\ \E r \in DOMAIN rooms : Len(rooms[r].nodeIds) > 3

(* C2: every returned room has a cycle of at least three node ids in      *)
(* which no id occurs twice, whatever the graph.  Stated here for the      *)
(* graphs drawn without crossing or overlapping walls, which the claim     *)
(* covers: bridges, cut vertices and dangling walls are among them.        *)
C2_RoomCyclesSimple ==
    (Done /\ PlanarDrawing(nodes, walls)) =>
        \A r \in DOMAIN rooms :
            /\ Len(rooms[r].nodeIds) >= 3
            /\ \A i, j \in DOMAIN rooms[r].nodeIds :
                   i # j => rooms[r].nodeIds[i] # rooms[r].nodeIds[j]

(* C3: no two returned rooms have cycles equal up to rotation and         *)
(* reversal; a face and its mirror traversal are never both returned.      *)
C3_NoMirroredRooms ==
    \A r, q \in DOMAIN rooms :
        r # q => ~SameCycle(rooms[r].nodeIds, rooms[q].nodeIds)

\* a face and its mirror were both traced, and a room was returned
C3_Witness ==
    /\ Done
    /\ Len(rooms) >= 1
    /\ \E f, g \in DOMAIN faces :
           f # g /\ SameCycle(faces[f].nodeIds, faces[g].nodeIds)

-----------------------------------------------------------------------------
(* C4: when the graph is two rooms sharing one wall and nothing else,      *)
(* exactly those two rooms are returned: not one combined region, and no   *)
(* third room running around both.                                         *)
C4_SharedWallGivesTwoRooms ==
    (Done /\ TwoRoomsSharingWall(nodes, walls)) =>
        /\ Len(rooms) = 2
        /\ \A c \in SharedWallCycles(walls) :
               \E r \in DOMAIN rooms : SameCycle(rooms[r].nodeIds, c)

\* two rooms side by side went through the function, one with four corners
\* or more
C4_Witness ==
    /\ Done
    /\ TwoRoomsSharingWall(nodes, walls)
    /\ \E c \in SharedWallCycles(walls) : Len(c) >= 4

-----------------------------------------------------------------------------
(* C5: adding a dangling wall, from an existing node to a new node with no *)
(* other wall, leaves the number of returned rooms unchanged, whether the  *)
(* wall points outside all rooms or into a room.  Stated here for the     *)
(* graphs drawn without crossing or overlapping walls.                     *)

\* the wall added last ends in a node that no other wall touches
LastWallDangles(ws) ==
    /\ Len(ws) >= 1
    /\ ws[Len(ws)].a # ws[Len(ws)].b
    /\ Degree(ws, ws[Len(ws)].a) = 1 \/ Degree(ws, ws[Len(ws)].b) = 1

WithoutLast(ws) == SubSeq(ws, 1, Len(ws) - 1)

C5_DanglingWallKeepsRoomCount ==
    (Done /\ PlanarDrawing(nodes, walls) /\ LastWallDangles(walls)) =>
        Len(rooms) = Len(BuildRoomsFromWalls(nodes, WithoutLast(walls)))

-----------------------------------------------------------------------------
(* C6: connected components are processed independently: the room cycles  *)
(* returned for a graph are the union of the room cycles returned for each *)
(* component alone, and the room counts add up.                            *)

CyclesOf(rs) == {rs[i].nodeIds : i \in DOMAIN rs}

RoomsOfComponent(comp) == BuildRoomsFromWalls(nodes, WallsOf(walls, comp))

RECURSIVE CountOver(_)
CountOver(comps) ==
    IF comps = {} THEN 0
    ELSE LET c == CHOOSE c \in comps : TRUE
         IN Len(RoomsOfComponent(c)) + CountOver(comps \ {c})

C6_ComponentsIndependent ==
    Done =>
        /\ RoomCycles = UNION {CyclesOf(RoomsOfComponent(c)) : c \in ComponentSets(walls)}
        /\ Len(rooms) = CountOver(ComponentSets(walls))

\* two separate components that each have a room
C6_Witness ==
    /\ Done
    /\ \E c, d \in ComponentSets(walls) :
           c # d /\ Len(RoomsOfComponent(c)) >= 1 /\ Len(RoomsOfComponent(d)) >= 1

-----------------------------------------------------------------------------
(* C7: for two rooms sharing a wall, moving an end node of the shared wall *)
(* with the wall list unchanged and no walls made to cross leaves exactly  *)
(* two rooms, before and after the move.                                   *)

\* farthest a move shifts a node along an axis
MaxShift == 2

\* nodes.map((node) => node.id === id ? { ...node, x: node.x + dx, y: node.y + dy } : node)
MoveNode(ns, id, dx, dy) ==
    [i \in DOMAIN ns |->
       IF ns[i].id = id THEN [id |-> id, x |-> ns[i].x + dx, y |-> ns[i].y + dy]
       ELSE ns[i]]

\* the shifts tried: a square around the node, the shift of the test, and
\* a longer drag upwards
Shifts == ((-MaxShift..MaxShift) \X (-MaxShift..MaxShift)) \cup {<<5, -6>>, <<0, -60>>}

\* the walls left when dangling walls are taken away until none is left
RECURSIVE Pruned(_)
Pruned(ws) ==
    LET kept == SelectSeq(ws, LAMBDA w : Degree(ws, w.a) > 1 /\ Degree(ws, w.b) > 1)
    IN IF Len(kept) = Len(ws) THEN ws ELSE Pruned(kept)

\* two rooms side by side, with or without dangling walls around them (the
\* graph of the test has two), all drawn without crossing
TwoRoomsDrawn(ns, ws) ==
    /\ PlanarDrawing(ns, ws)
    /\ TwoRoomsSharingWall(ns, Pruned(ws))

\* C7: when two rooms sharing a wall are returned before the move, two rooms
\* are returned after every move of an end node of the shared wall that
\* leaves the walls uncrossed
C7_MovedSharedNodeKeepsTwoRooms ==
    (Done /\ TwoRoomsDrawn(nodes, walls) /\ Len(rooms) = 2) =>
        \A n \in Hubs(Pruned(walls)), d \in Shifts :
            PlanarDrawing(MoveNode(nodes, n, d[1], d[2]), walls) =>
                Len(BuildRoomsFromWalls(MoveNode(nodes, n, d[1], d[2]), walls)) = 2

-----------------------------------------------------------------------------
(* C8: a component that is a single closed cycle of n >= 3 non-collinear   *)
(* nodes yields exactly one room, holding each of the n nodes once; the    *)
(* inner and the outer traversal are not both returned.                    *)

\* every node of the component has two walls, to two different nodes
CycleComponent(ws, comp) ==
    /\ Cardinality(comp) >= 3
    /\ SimpleGraph(WallsOf(ws, comp))
    /\ \A n \in comp : Degree(ws, n) = 2

\* the nodes of a cycle component in the order the walls join them
CycleOrder(ws, comp) ==
    LET u == CHOOSE n \in comp : \A m \in comp : n <= m
        v == CHOOSE n \in NeighborSet(ws, u) : TRUE
        p == WalkTo(ws, u, v, u, <<u>>)
    IN SubSeq(p, 1, Len(p) - 1)

\* the nodes of the component are in the node list, so they have positions
Placed(ns, comp) == \A n \in comp : HasNode(ns, n)

NoThreeCollinear(ns, comp) ==
    \A a, b, c \in comp :
        Cardinality({a, b, c}) = 3 =>
            Orient(NodeMapGet(ns, a), NodeMapGet(ns, b), NodeMapGet(ns, c)) # 0

RoomsIn(comp) == {r \in DOMAIN rooms : rooms[r].nodeIds[1] \in comp}

OneRoomAround(comp) ==
    /\ Cardinality(RoomsIn(comp)) = 1
    /\ \A r \in RoomsIn(comp) :
           /\ Len(rooms[r].nodeIds) = Cardinality(comp)
           /\ Range(rooms[r].nodeIds) = comp

-----------------------------------------------------------------------------
(* The winding groups of a component, from the traced faces *)

PositiveIn(comp) ==
    SelectSeq(faces, LAMBDA f : f.nodeIds[1] \in comp /\ f.area2 > 0)

NegativeIn(comp) ==
    SelectSeq(faces, LAMBDA f : f.nodeIds[1] \in comp /\ f.area2 < 0)

UnsignedArea2(group) == SumSeq([i \in DOMAIN group |-> Abs(group[i].area2)], 1)

KeptIn(comp) == {rooms[r].nodeIds : r \in RoomsIn(comp)}

\* equally many faces of either winding, with different total areas
WindingTie(comp) ==
    /\ Len(PositiveIn(comp)) = Len(NegativeIn(comp))
    /\ Len(PositiveIn(comp)) >= 1
    /\ UnsignedArea2(PositiveIn(comp)) # UnsignedArea2(NegativeIn(comp))

SmallerGroup(comp) ==
    IF UnsignedArea2(NegativeIn(comp)) < UnsignedArea2(PositiveIn(comp))
    THEN NegativeIn(comp) ELSE PositiveIn(comp)

LargerGroup(comp) ==
    IF UnsignedArea2(NegativeIn(comp)) < UnsignedArea2(PositiveIn(comp))
    THEN PositiveIn(comp) ELSE NegativeIn(comp)

(* C9: a component with faces of both windings keeps one winding group:   *)
(* the one with strictly more faces, on equal counts the one with the      *)
(* smaller total unsigned area; a component with one winding keeps all.    *)
C9_OneWindingGroupKept ==
    Done =>
        \A comp \in ComponentSets(walls) :
            LET pos == PositiveIn(comp)
                neg == NegativeIn(comp)
            IN IF Len(pos) = 0 \/ Len(neg) = 0
               THEN KeptIn(comp) = CyclesOf(pos) \cup CyclesOf(neg)
               ELSE IF Len(pos) > Len(neg) THEN KeptIn(comp) = CyclesOf(pos)
               ELSE IF Len(neg) > Len(pos) THEN KeptIn(comp) = CyclesOf(neg)
               ELSE IF WindingTie(comp)
               THEN KeptIn(comp) = CyclesOf(SmallerGroup(comp))
               ELSE KeptIn(comp) \in {CyclesOf(pos), CyclesOf(neg)}

\* a component with faces of both windings, more of one than of the other
C9_Witness ==
    /\ Done
    /\ \E comp \in ComponentSets(walls) :
           /\ Len(NegativeIn(comp)) >= 1
           /\ Len(PositiveIn(comp)) > Len(NegativeIn(comp))

(* C10: on equal counts of positive and negative faces, the group with    *)
(* the smaller total unsigned area is dropped from the output.  Stated     *)
(* here for the graphs drawn without crossing or overlapping walls.        *)
C10_SmallerGroupDropped ==
    (Done /\ PlanarDrawing(nodes, walls)) =>
        \A comp \in ComponentSets(walls) :
            WindingTie(comp) => KeptIn(comp) \cap CyclesOf(SmallerGroup(comp)) = {}

\* C10 as amended: on equal counts the group with the larger total unsigned
\* area is dropped, and the group with the smaller total is returned
C10_LargerGroupDropped ==
    Done =>
        \A comp \in ComponentSets(walls) :
            WindingTie(comp) =>
                /\ KeptIn(comp) \cap CyclesOf(LargerGroup(comp)) = {}
                /\ CyclesOf(SmallerGroup(comp)) \subseteq KeptIn(comp)

\* a tie of one face against one face with different areas
C10_Witness ==
    /\ Done
    /\ \E comp \in ComponentSets(walls) : WindingTie(comp)

-----------------------------------------------------------------------------
(* C11: rooms are returned in discovery order with sequential ids: the     *)
(* i-th returned room has id i and is the i-th surviving face in the order *)
(* the faces were traced, also when faces of different connected           *)
(* components are discovered in turn.                                      *)

\* the traced faces that are returned as rooms, in the order of tracing
Survivors == SelectSeq(faces, LAMBDA f : f.nodeIds \in RoomCycles)

\* the place in the tracing order of the first face of a component
FirstFace(comp) ==
    CHOOSE i \in DOMAIN faces :
        /\ faces[i].nodeIds[1] \in comp
        /\ \A j \in 1..(i - 1) : faces[j].nodeIds[1] \notin comp

\* the components that have a face, by the place of their first face
RECURSIVE ComponentsByFirstFace(_)
ComponentsByFirstFace(comps) ==
    IF comps = {} THEN <<>>
    ELSE LET c == CHOOSE c \in comps : \A d \in comps : FirstFace(c) <= FirstFace(d)
         IN <<c>> \o ComponentsByFirstFace(comps \ {c})

FacedComponents ==
    {c \in ComponentSets(walls) : \E i \in DOMAIN faces : faces[i].nodeIds[1] \in c}

\* the surviving faces, component after component
GroupedSurvivors ==
    LET comps == ComponentsByFirstFace(FacedComponents)
    IN Flatten([k \in DOMAIN comps |->
                  SelectSeq(Survivors, LAMBDA f : f.nodeIds[1] \in comps[k])], 1)

SequentialIds == \A i \in DOMAIN rooms : rooms[i].id = i

-----------------------------------------------------------------------------
-----------------------------------------------------------------------------
(* C13: every returned room has an unsigned polygon area strictly greater  *)
(* than the epsilon 0.0001; a closed trace whose nodes are collinear (zero *)
(* area) is never returned as a room.                                      *)

DirectedEdges == UNION {{<<walls[i].a, walls[i].b>>, <<walls[i].b, walls[i].a>>} : i \in DOMAIN walls}

\* the closed traces of at least three steps, from any directed edge
ClosedTraces ==
    {t \in {Trace(angleMap, e[1], e[2]) : e \in DirectedEdges} :
        t.closed /\ Len(t.path) >= 4}

ZeroArea(t) == PolygonArea2(PointsOf(nodes, CycleOf(t.path))) = 0

C13_RoomsHaveArea ==
    Done =>
        /\ \A r \in DOMAIN rooms : AboveEpsilon(PolygonArea2(rooms[r].points))
        /\ \A t \in ClosedTraces : ZeroArea(t) => CycleOf(t.path) \notin RoomCycles

\* a trace over collinear nodes closes, beside a room that is returned
C13_Witness ==
    /\ Done
    /\ Len(rooms) >= 1
    /\ \E t \in ClosedTraces : ZeroArea(t)

-----------------------------------------------------------------------------
(* C14: buildRoomsFromWalls returns the empty list when the wall list is   *)
(* empty or the node list is empty (also when walls are given but no node  *)
(* exists), and the call runs to its return without raising.               *)

\* the call has returned or one of its steps can be taken: the guards of
\* BuildGraph, TraceNext, ReturnEmpty and ReturnRooms
Completes ==
    \/ Done
    \/ pc = "start"
    \/ pc = "trace" /\ step < 2 * Len(walls)
    \/ pc = "trace" /\ step = 2 * Len(walls) /\ Len(faces) = 0
    \/ pc = "trace" /\ step = 2 * Len(walls) /\ Len(faces) > 0

C14_EmptyInputGivesNoRooms ==
    (Len(walls) = 0 \/ Len(nodes) = 0) =>
        /\ Completes
        /\ Done => rooms = <<>>

\* walls are given but no node exists, and the call has returned
C14_Witness ==
    /\ Done
    /\ Len(nodes) = 0
    /\ Len(walls) >= 3

-----------------------------------------------------------------------------
(* C15: when some walls refer to node ids that are not in the node list,   *)
(* the call still completes, every id in a returned room's nodeIds is the  *)
(* id of an input node, and room.points has one point per entry of         *)
(* room.nodeIds, points[i] being the position of node nodeIds[i].          *)

SomeNodeMissing == \E n \in WallEnds(walls) : ~HasNode(nodes, n)

PointsMatchNodes(room) ==
    /\ \A i \in DOMAIN room.nodeIds : HasNode(nodes, room.nodeIds[i])
    /\ Len(room.points) = Len(room.nodeIds)
    /\ \A i \in DOMAIN room.nodeIds :
           /\ room.points[i].x = NodeMapGet(nodes, room.nodeIds[i]).x
           /\ room.points[i].y = NodeMapGet(nodes, room.nodeIds[i]).y

C15_RoomsUseKnownNodes ==
    SomeNodeMissing =>
        /\ Completes
        /\ Done => \A r \in DOMAIN rooms : PointsMatchNodes(rooms[r])

\* a room is returned although a wall refers to a node that is missing
C15_Witness ==
    /\ Done
    /\ SomeNodeMissing
    /\ Len(rooms) >= 1

-----------------------------------------------------------------------------
(* C16: buildRoomsFromWalls terminates on every finite input: each trace   *)
(* stops after at most 500 steps, and a trace that has not returned to its *)
(* starting directed edge by then produces no room, while all faces that   *)
(* close within the bound are still returned.                              *)

\* the directed edge offered as the start of the trace of the step taken
OfferedU == StartU(walls, step + 1)
OfferedV == StartV(walls, step + 1)

\* a round of directions.forEach that runs the while loop
TraceTaken ==
    /\ pc = "trace"
    /\ step' = step + 1
    /\ <<OfferedU, OfferedV>> \notin visited

\* the trace ran into the safety bound
CutOff == ~closed /\ safety = SafetyLimit

\* a trace that has not closed leaves no face and marks no edge; a trace
\* that closes adds the face of its path, if the path has one
TraceKeepsFaces ==
    TraceTaken =>
        /\ ~closed' => faces' = faces /\ visited' = visited
        /\ closed' /\ safety' >= 3 =>
               faces' = faces \o FaceOf(nodes, Trace(angleMap, OfferedU, OfferedV).path)

\* the rooms returned are the rooms of the faces that closed
FacesReturned == Done => rooms = ToRooms(FilterFaces(faces, adjacency))

C16_Terminates ==
    /\ (pc = "start") ~> Done
    /\ [](safety <= SafetyLimit)
    /\ [][TraceKeepsFaces]_vars
    /\ []FacesReturned

\* the last trace of a long loop was cut off and the triangle beside the
\* loop is returned
C16_Witness ==
    /\ Done
    /\ Len(rooms) >= 1
    /\ CutOff

-----------------------------------------------------------------------------
(* Exact numbers for the inner metrics.  Coordinates, offsets and lengths  *)
(* are rationals <<numerator, denominator>> in lowest terms with a         *)
(* positive denominator; the inputs are chosen so that every Math.hypot    *)
(* the code takes is rational, and the rounding of doubles is not          *)
(* modelled.                                                               *)

RECURSIVE Gcd(_, _)
Gcd(a, b) == IF b = 0 THEN a ELSE Gcd(b, a % b)

Q(n, d) ==
    LET s == IF d < 0 THEN -1 ELSE 1
        g == Gcd(Abs(n), Abs(d))
    IN <<(s * n) \div g, (s * d) \div g>>

QInt(n) == <<n, 1>>
QAdd(p, q) == Q(p[1] * q[2] + q[1] * p[2], p[2] * q[2])
QSub(p, q) == Q(p[1] * q[2] - q[1] * p[2], p[2] * q[2])
QMul(p, q) == Q(p[1] * q[1], p[2] * q[2])
QDiv(p, q) == Q(p[1] * q[2], p[2] * q[1])
QLess(p, q) == p[1] * q[2] < q[1] * p[2]
QAbs(p) == <<Abs(p[1]), p[2]>>
QZero == QInt(0)

\* Math.min
QMin(p, q) == IF QLess(q, p) THEN q ELSE p

\* the root of a square number
Root(n) == CHOOSE r \in 0..n : r * r = n

\* Math.hypot of two rationals whose squares add up to a rational square
QHypot(p, q) ==
    LET s == QAdd(QMul(p, p), QMul(q, q))
    IN <<Root(s[1]), Root(s[2])>>

QPoint(p) == [x |-> QInt(p.x), y |-> QInt(p.y)]

\* distance(a, b)
Distance(a, b) == QHypot(QSub(a.x, b.x), QSub(a.y, b.y))

-----------------------------------------------------------------------------
(* offsetPolygon *)

\* the value offsetPolygon returns for lists it does not offset
Null == <<"null">>

\* polygonAreaSigned(points) >= 0 ? 1 : -1
OffsetSign(points) == IF PolygonArea2(points) >= 0 THEN 1 ELSE -1

\* mutant: a triangle is refused as well
RefusedBelowFour(points, offsets) ==
    Len(points) < 4 \/ Len(offsets) # Len(points)

\* points.length < 3 || offsets.length !== points.length
Refused(points, offsets) ==
    Len(points) < 3 \/ Len(offsets) # Len(points)

\* Math.abs(cross) < EPS on edge directions with whole coordinates: the
\* cross product is a whole number, and below 1e-6 it is 0
Parallel(d1, d2) == QSub(QMul(d1.x, d2.y), QMul(d1.y, d2.x)) = QZero

\* lineIntersection(p1, d1, p2, d2) where the lines are not parallel
LineIntersection(p1, d1, p2, d2) ==
    LET cross == QSub(QMul(d1.x, d2.y), QMul(d1.y, d2.x))
        t == QDiv(QSub(QMul(QSub(p2.x, p1.x), d2.y), QMul(QSub(p2.y, p1.y), d2.x)),
                  cross)
    IN [x |-> QAdd(p1.x, QMul(d1.x, t)), y |-> QAdd(p1.y, QMul(d1.y, t))]

\* getEdge(index), index counted from 1
GetEdge(points, offsets, index) ==
    LET a == QPoint(points[index])
        b == QPoint(After(points, index))
        dx == QSub(b.x, a.x)
        dy == QSub(b.y, a.y)
        hyp == QHypot(dx, dy)
        len == IF hyp = QZero THEN QInt(1) ELSE hyp
        sign == QInt(OffsetSign(points))
        nx == QDiv(QMul(sign, QSub(QZero, dy)), len)
        ny == QDiv(QMul(sign, dx), len)
        offset == offsets[index]
    IN [p |-> [x |-> QAdd(a.x, QMul(nx, offset)), y |-> QAdd(a.y, QMul(ny, offset))],
        n |-> [x |-> nx, y |-> ny],
        o |-> offset,
        a |-> a,
        d |-> [x |-> dx, y |-> dy]]

\* edge.a displaced by the offset of the edge
Displaced(edge) ==
    [x |-> QAdd(edge.a.x, QMul(edge.n.x, edge.o)),
     y |-> QAdd(edge.a.y, QMul(edge.n.y, edge.o))]

Midpoint(p, q) ==
    [x |-> QDiv(QAdd(p.x, q.x), QInt(2)), y |-> QDiv(QAdd(p.y, q.y), QInt(2))]

\* the index before i, around the polygon
Before(points, i) == IF i = 1 THEN Len(points) ELSE i - 1

\* the vertex pushed where prevEdge and nextEdge meet
Joint(prevEdge, nextEdge) ==
    IF ~Parallel(prevEdge.d, nextEdge.d)
    THEN LineIntersection(prevEdge.p, prevEdge.d, nextEdge.p, nextEdge.d)
    ELSE Midpoint(Displaced(prevEdge), Displaced(nextEdge))

\* one round of the corner loop: the vertex pushed for corner i
Corner(points, offsets, i) ==
    Joint(GetEdge(points, offsets, Before(points, i)), GetEdge(points, offsets, i))

OffsetPolygon(points, offsets) ==
    IF Refused(points, offsets) THEN Null
    ELSE [i \in DOMAIN points |-> Corner(points, offsets, i)]

-----------------------------------------------------------------------------
(* Inner lengths of the walls *)

\* no wall on an edge: (wallEdgeMap.get(key) || [])[0] is undefined
NoWall == [id |-> 0, a |-> 0, b |-> 0, thickness |-> 0]

\* edgeKey(a, b) of a wall or of an edge of a room
OnEdge(wall, a, b) == {wall.a, wall.b} = {a, b}

\* mutant: the walls of an edge are left in list order
FirstWallListed(ws, a, b) ==
    LET list == SelectSeq(ws, LAMBDA wall : OnEdge(wall, a, b))
    IN IF list = <<>> THEN NoWall ELSE list[1]

\* (wallEdgeMap.get(edgeKey(a, b)) || [])[0] for the map buildWallEdgeMap
\* makes: of the walls on the edge the one with the lowest id, the earlier
\* one where ids are equal
FirstWall(ws, a, b) ==
    LET list == SelectSeq(ws, LAMBDA wall : OnEdge(wall, a, b))
    IN IF list = <<>> THEN NoWall
       ELSE list[CHOOSE i \in DOMAIN list :
                    \A j \in DOMAIN list :
                        \/ list[i].id < list[j].id
                        \/ list[i].id = list[j].id /\ i <= j]

\* mutant: the edges are moved outward
GetRoomOffsetsOutward(room, ws, default, sc) ==
    [index \in DOMAIN room.nodeIds |->
        LET wall == FirstWall(ws, room.nodeIds[index], After(room.nodeIds, index))
            thickness == IF wall = NoWall THEN default ELSE wall.thickness
        IN Q(-(thickness * sc), 2)]

\* getRoomOffsets
GetRoomOffsets(room, ws, default, sc) ==
    [index \in DOMAIN room.nodeIds |->
        LET wall == FirstWall(ws, room.nodeIds[index], After(room.nodeIds, index))
            thickness == IF wall = NoWall THEN default ELSE wall.thickness
        IN Q(thickness * sc, 2)]

\* mutant: an empty list stands for no inner polygon
GetRoomInnerPolygonOrEmpty(room, ws, default, sc) ==
    LET inner == OffsetPolygon(room.points, GetRoomOffsets(room, ws, default, sc))
    IN IF inner = Null THEN <<>> ELSE IF Len(inner) < 3 THEN <<>> ELSE inner

\* if (!inner || inner.length < 3) return null; return inner
AtLeastThree(inner) ==
    IF inner = Null THEN Null ELSE IF Len(inner) < 3 THEN Null ELSE inner

\* getRoomInnerPolygon
GetRoomInnerPolygon(room, ws, default, sc) ==
    AtLeastThree(OffsetPolygon(room.points, GetRoomOffsets(room, ws, default, sc)))

\* distance(inner[i], inner[(i + 1) % inner.length]) / scale
InnerEdgeLength(inner, i, sc) == QDiv(Distance(inner[i], After(inner, i)), QInt(sc))

\* map.set(wall.id, existing ? Math.min(existing, length) : length): a
\* length of 0 in the map counts as no length
SetLength(m, id, length) ==
    [k \in DOMAIN m \cup {id} |->
        IF k # id THEN m[k]
        ELSE IF id \in DOMAIN m /\ m[id] # QZero THEN QMin(m[id], length)
        ELSE length]

\* the rounds i, i + 1, ... of the loop over the edges of a room
RECURSIVE MeasureEdges(_, _, _, _, _, _)
MeasureEdges(m, room, inner, ws, sc, i) ==
    IF i > Len(inner) THEN m
    ELSE LET wall == FirstWall(ws, room.nodeIds[i], After(room.nodeIds, i))
         IN MeasureEdges(IF wall = NoWall THEN m
                         ELSE SetLength(m, wall.id, InnerEdgeLength(inner, i, sc)),
                         room, inner, ws, sc, i + 1)

\* one round of rooms.forEach after inner has been worked out
MeasureInner(m, room, inner, ws, sc) ==
    IF inner = Null THEN m
    ELSE IF Len(inner) # Len(room.points) THEN m
    ELSE MeasureEdges(m, room, inner, ws, sc, 1)

\* one round of rooms.forEach
MeasureRoomInto(m, room, ws, default, sc) ==
    MeasureInner(m, room, GetRoomInnerPolygon(room, ws, default, sc), ws, sc)

RECURSIVE InnerLengthsFrom(_, _, _, _, _, _)
InnerLengthsFrom(m, rs, ws, default, sc, k) ==
    IF k > Len(rs) THEN m
    ELSE InnerLengthsFrom(MeasureRoomInto(m, rs[k], ws, default, sc),
                          rs, ws, default, sc, k + 1)

\* new Map<number, number>()
EmptyMap == [k \in {} |-> QZero]

\* getInnerLengthByWallId
GetInnerLengthByWallId(rs, ws, default, sc) ==
    InnerLengthsFrom(EmptyMap, rs, ws, default, sc, 1)

\* sum += ... over the entries i, i + 1, ... of a list of numbers
RECURSIVE QSum(_, _)
QSum(qs, i) == IF i > Len(qs) THEN QZero ELSE QAdd(qs[i], QSum(qs, i + 1))

\* polygonArea
PolygonArea(points) ==
    QAbs(QDiv(QSum([i \in DOMAIN points |->
                      QSub(QMul(points[i].x, After(points, i).y),
                           QMul(After(points, i).x, points[i].y))], 1),
              QInt(2)))

\* room.points as numbers
QPoints(room) == [i \in DOMAIN room.points |-> QPoint(room.points[i])]

\* getRoomArea
GetRoomArea(room, sc) == QDiv(PolygonArea(QPoints(room)), QInt(sc * sc))

\* if (!inner) return getRoomArea(room, scale); return polygonArea(inner)
\* / (scale * scale)
InnerAreaOf(inner, room, sc) ==
    IF inner = Null THEN GetRoomArea(room, sc)
    ELSE QDiv(PolygonArea(inner), QInt(sc * sc))

\* getRoomInnerArea
GetRoomInnerArea(room, ws, default, sc) ==
    InnerAreaOf(GetRoomInnerPolygon(room, ws, default, sc), room, sc)

\* getRoomInnerPolygon(...) ?? room.points
MeasuredPoints(inner, room) == IF inner = Null THEN QPoints(room) ELSE inner

\* the sum of the distances around points, over the scale
PerimeterOf(points, sc) ==
    IF Len(points) = 0 THEN QZero
    ELSE QDiv(QSum([i \in DOMAIN points |-> Distance(points[i], After(points, i))], 1),
              QInt(sc))

\* getRoomPerimeter
GetRoomPerimeter(room, ws, default, sc, useInnerPolygon) ==
    PerimeterOf(MeasuredPoints(IF useInnerPolygon
                               THEN GetRoomInnerPolygon(room, ws, default, sc)
                               ELSE Null, room), sc)

-----------------------------------------------------------------------------
(* getRoomKey.  A string is the sequence of its UTF-16 code units.         *)

\* the code units of "-" and of "0"
Hyphen == 45
Zero == 48

\* String(n) for a whole number n >= 0
RECURSIVE Decimal(_)
Decimal(n) ==
    IF n < 10 THEN <<Zero + n>> ELSE Append(Decimal(n \div 10), Zero + (n % 10))

\* arr.join("-") from the entry i on
RECURSIVE JoinFrom(_, _)
JoinFrom(arr, i) ==
    IF i > Len(arr) THEN <<>>
    ELSE IF i = Len(arr) THEN Decimal(arr[i])
    ELSE Decimal(arr[i]) \o <<Hyphen>> \o JoinFrom(arr, i + 1)

Join(arr) == JoinFrom(arr, 1)

\* s < t on strings: by the first code unit that differs, a proper prefix
\* first
RECURSIVE StringLess(_, _)
StringLess(s, t) ==
    IF t = <<>> THEN FALSE
    ELSE IF s = <<>> THEN TRUE
    ELSE IF Head(s) # Head(t) THEN Head(s) < Head(t)
    ELSE StringLess(Tail(s), Tail(t))

\* Math.min(...cycle)
MinOf(cycle) == CHOOSE n \in Range(cycle) : \A k \in Range(cycle) : n <= k

\* rotate(arr, index), index counted from 0
Rotate(arr, index) == SubSeq(arr, index + 1, Len(arr)) \o SubSeq(arr, 1, index)

\* mutant: the key of the cycle in the direction given
GetRoomKeyForward(cycle) ==
    IF Len(cycle) = 0 THEN <<>>
    ELSE Join(Rotate(cycle, IndexOf(cycle, MinOf(cycle)) - 1))

GetRoomKey(cycle) ==
    IF Len(cycle) = 0 THEN <<>>
    ELSE LET idx == IndexOf(cycle, MinOf(cycle)) - 1
             forward == Rotate(cycle, idx)
             backward == Rotate(Reverse(cycle), Len(cycle) - 1 - idx)
             forwardKey == Join(forward)
             backwardKey == Join(backward)
         IN IF StringLess(forwardKey, backwardKey) THEN forwardKey ELSE backwardKey

-----------------------------------------------------------------------------
(* Calls of offsetPolygon and getInnerLengthByWallId.  The variable        *)
(* metrics holds the arguments, the position and the result of one call;   *)
(* the variables of buildRoomsFromWalls rest meanwhile.                    *)

MaxOffset == 2
MaxThickness == 4
MaxScale == 2

P(x, y) == [x |-> x, y |-> y]

\* point lists with edges of whole length: too short ones, a triangle, a
\* square in both directions, a rectangle with a vertex inside an edge, one
\* with a vertex twice, an L with a reflex vertex, three points on a line
Polygons ==
    {<<>>,
     <<P(0, 0), P(4, 0)>>,
     <<P(0, 0), P(4, 0), P(4, 3)>>,
     <<P(0, 0), P(4, 0), P(4, 4), P(0, 4)>>,
     <<P(0, 4), P(4, 4), P(4, 0), P(0, 0)>>,
     <<P(0, 0), P(2, 0), P(4, 0), P(4, 4), P(0, 4)>>,
     <<P(0, 0), P(4, 0), P(4, 0), P(4, 4), P(0, 4)>>,
     <<P(0, 0), P(4, 0), P(4, 2), P(2, 2), P(2, 4), P(0, 4)>>,
     <<P(0, 0), P(4, 0), P(2, 0)>>}

\* offset lists as long as the point list, one shorter and one longer
OffsetLists(n) ==
    UNION {[1..k -> {QInt(o) : o \in 0..MaxOffset}] : k \in {n - 1, n, n + 1} \cap Nat}

OffsetCalls ==
    {[pc |-> "offsetPolygon", points |-> ps, offsets |-> os, result |-> Null] :
        <<ps, os>> \in UNION {{<<ps, os>> : os \in OffsetLists(Len(ps))} : ps \in Polygons}}

T(id, a, b, thickness) == [id |-> id, a |-> a, b |-> b, thickness |-> thickness]

\* two rooms side by side on the wall 2-3: 1-2-3-4 is 2 wide and 4 high,
\* 2-5-6-3 is 4 wide and 4 high
RoomLeft ==
    [id |-> 1, nodeIds |-> <<1, 2, 3, 4>>,
     points |-> <<P(0, 0), P(2, 0), P(2, 4), P(0, 4)>>]

RoomRight ==
    [id |-> 2, nodeIds |-> <<2, 5, 6, 3>>,
     points |-> <<P(2, 0), P(6, 0), P(6, 4), P(2, 4)>>]

\* an L: the square 4 by 4 without its upper right quarter
RoomEll ==
    [id |-> 3, nodeIds |-> <<11, 12, 13, 14, 15, 16>>,
     points |-> <<P(0, 0), P(4, 0), P(4, 2), P(2, 2), P(2, 4), P(0, 4)>>]

\* a U: 6 wide and 4 high with a notch 2 wide and 2 deep in its upper side
RoomU ==
    [id |-> 4, nodeIds |-> <<21, 22, 23, 24, 25, 26, 27, 28>>,
     points |-> <<P(0, 0), P(6, 0), P(6, 4), P(4, 4), P(4, 2), P(2, 2), P(2, 4), P(0, 4)>>]

\* rooms without an inner polygon: two points; three points for four node
\* ids; four points for three node ids; no points
RoomShort == [id |-> 5, nodeIds |-> <<1, 2>>, points |-> <<P(0, 0), P(2, 0)>>]

RoomFewPoints ==
    [id |-> 6, nodeIds |-> <<1, 2, 3, 4>>, points |-> <<P(0, 0), P(4, 0), P(4, 3)>>]

RoomFewIds ==
    [id |-> 7, nodeIds |-> <<1, 2, 3>>,
     points |-> <<P(0, 0), P(2, 0), P(2, 4), P(0, 4)>>]

RoomEmpty == [id |-> 8, nodeIds |-> <<>>, points |-> <<>>]

RoomLists ==
    {<<RoomLeft, RoomRight>>, <<RoomRight, RoomLeft>>, <<RoomLeft>>, <<RoomRight>>,
     <<RoomEll>>, <<RoomU>>, <<RoomEll, RoomLeft>>,
     <<RoomFewPoints, RoomRight, RoomFewIds>>, <<RoomShort, RoomEmpty>>}

\* the walls around a room, one per edge, with the ids of the first nodes
\* of the edges and the thicknesses of t in turn
WallsAround(room, t) ==
    [i \in DOMAIN room.nodeIds |->
        T(room.nodeIds[i], room.nodeIds[i], After(room.nodeIds, i), t[((i - 1) % Len(t)) + 1])]

\* the walls of the two rooms: the walls below and above the left room are
\* tl thick, those below and above the right room tr, the upright ones tu
PlanWalls(tl, tr, tu) ==
    <<T(1, 1, 2, tl), T(2, 2, 3, tu), T(3, 3, 4, tl), T(4, 4, 1, tu),
      T(5, 2, 5, tr), T(6, 5, 6, tu), T(7, 6, 3, tr)>>
        \o WallsAround(RoomEll, <<tl, tr, tu>>) \o WallsAround(RoomU, <<tl, tr, tu>>)

\* the walls in the opposite list order, each from b to a
Turned(ws) == [i \in DOMAIN ws |-> T(ws[Len(ws) + 1 - i].id, ws[Len(ws) + 1 - i].b,
                                     ws[Len(ws) + 1 - i].a, ws[Len(ws) + 1 - i].thickness)]

\* the wall list as it is, with a second wall on the shared edge after or
\* before the others, turned, or without the wall 4-1
WallVariants(ws) ==
    {ws,
     Append(ws, T(8, 3, 2, 0)),
     <<T(8, 3, 2, 0)>> \o ws,
     Turned(ws),
     SelectSeq(ws, LAMBDA wall : wall.id # 4)}

LengthCalls ==
    {[pc |-> "rooms.forEach", rooms |-> rs, walls |-> ws,
      defaultWallThickness |-> dt, scale |-> sc, index |-> 0, offsets |-> <<>>,
      map |-> EmptyMap] :
        <<rs, ws, dt, sc>> \in
            UNION {RoomLists \X WallVariants(PlanWalls(t[1], t[2], t[3]))
                       \X {0, MaxThickness} \X (1..MaxScale) :
                   t \in (0..MaxThickness) \X (0..MaxThickness) \X (0..MaxThickness)}}

MaxCycleLen == 4

\* ids of one and of two digits
KeyIds == {1, 2, 3, 10, 21}

\* the node id lists of up to MaxCycleLen ids, with and without an id twice
KeyCycles == UNION {[1..n -> KeyIds] : n \in 0..MaxCycleLen}

KeyCalls == {[pc |-> "getRoomKey", cycle |-> c, key |-> <<>>] : c \in KeyCycles}

\* the area and the perimeter of one room, asked for with either setting
\* of useInnerPolygon, the walls all t thick
RoomCalls ==
    {[pc |-> "room", room |-> r, walls |-> PlanWalls(t, t, t),
      defaultWallThickness |-> MaxThickness, scale |-> sc, useInnerPolygon |-> u,
      area |-> QZero, perimeter |-> QZero] :
        <<r, t, sc, u>> \in
            {RoomLeft, RoomEll, RoomU, RoomShort, RoomFewPoints, RoomFewIds, RoomEmpty}
                \X (0..MaxThickness) \X (1..MaxScale) \X BOOLEAN}

roomVars ==
    <<nodes, walls, pc, adjacency, angleMap, step, visited, faces, rooms, previous,
      safety, closed>>

InitMetrics ==
    /\ metrics \in OffsetCalls \cup LengthCalls \cup RoomCalls \cup KeyCalls
    /\ nodes = <<>>
    /\ walls = <<>>
    /\ pc = "rest"
    /\ adjacency = [keys |-> <<>>, nbrs |-> <<>>]
    /\ angleMap = <<>>
    /\ step = 0
    /\ visited = {}
    /\ faces = <<>>
    /\ rooms = <<>>
    /\ previous = <<>>
    /\ safety = 0
    /\ closed = FALSE
    /\ app = Resting

\* offsetPolygon(points, offsets)
OffsetPolygonCall ==
    /\ metrics.pc = "offsetPolygon"
    /\ metrics' = [metrics EXCEPT !.result = OffsetPolygon(metrics.points, metrics.offsets),
                                  !.pc = "offsetPolygon returned"]
    /\ UNCHANGED <<roomVars, app>>

\* one round of rooms.forEach in getInnerLengthByWallId
MeasureRoom ==
    /\ metrics.pc = "rooms.forEach"
    /\ metrics.index < Len(metrics.rooms)
    /\ metrics' = [metrics EXCEPT
                      !.offsets = GetRoomOffsets(metrics.rooms[metrics.index + 1],
                                                 metrics.walls, metrics.defaultWallThickness,
                                                 metrics.scale),
                      !.map = MeasureRoomInto(@, metrics.rooms[metrics.index + 1],
                                              metrics.walls, metrics.defaultWallThickness,
                                              metrics.scale),
                      !.index = @ + 1]
    /\ UNCHANGED <<roomVars, app>>

\* getRoomInnerArea and getRoomPerimeter on one room
RoomMetricsCall ==
    /\ metrics.pc = "room"
    /\ metrics' = [metrics EXCEPT
                      !.area = GetRoomInnerArea(metrics.room, metrics.walls,
                                                metrics.defaultWallThickness, metrics.scale),
                      !.perimeter = GetRoomPerimeter(metrics.room, metrics.walls,
                                                     metrics.defaultWallThickness,
                                                     metrics.scale, metrics.useInnerPolygon),
                      !.pc = "room returned"]
    /\ UNCHANGED <<roomVars, app>>

\* getRoomKey(cycle)
GetRoomKeyCall ==
    /\ metrics.pc = "getRoomKey"
    /\ metrics' = [metrics EXCEPT !.key = GetRoomKey(metrics.cycle),
                                  !.pc = "getRoomKey returned"]
    /\ UNCHANGED <<roomVars, app>>

\* return map
ReturnMap ==
    /\ metrics.pc = "rooms.forEach"
    /\ metrics.index = Len(metrics.rooms)
    /\ metrics' = [metrics EXCEPT !.pc = "getInnerLengthByWallId returned"]
    /\ UNCHANGED <<roomVars, app>>

NextMetrics ==
    OffsetPolygonCall \/ MeasureRoom \/ ReturnMap \/ RoomMetricsCall \/ GetRoomKeyCall

SpecMetrics == InitMetrics /\ [][NextMetrics]_vars

-----------------------------------------------------------------------------
(* C17: offsetPolygon(points, offsets) returns null exactly when           *)
(* points.length < 3 or offsets.length differs from points.length; in      *)
(* every other case it returns a polygon with exactly points.length        *)
(* vertices, vertex i corresponding to input vertex i.                     *)

OffsetReturned == metrics.pc = "offsetPolygon returned"

\* the point q lies on the line of the edge moved by its offset
OnOffsetLine(q, edge) ==
    QSub(QMul(QSub(q.x, edge.p.x), edge.d.y), QMul(QSub(q.y, edge.p.y), edge.d.x)) = QZero

\* the edges before and after vertex i are parallel, or one has no length
ParallelAt(points, offsets, i) ==
    Parallel(GetEdge(points, offsets, Before(points, i)).d, GetEdge(points, offsets, i).d)

\* output vertex i is where the moved edges before and after input vertex i
\* meet
MiterAt(points, offsets, out, i) ==
    /\ OnOffsetLine(out[i], GetEdge(points, offsets, Before(points, i)))
    /\ OnOffsetLine(out[i], GetEdge(points, offsets, i))

C17_NullExactlyWhenRefused ==
    OffsetReturned =>
        /\ metrics.result = Null <=>
               (Len(metrics.points) < 3 \/ Len(metrics.offsets) # Len(metrics.points))
        /\ metrics.result # Null =>
               /\ DOMAIN metrics.result = DOMAIN metrics.points
               /\ \A i \in DOMAIN metrics.points :
                      ~ParallelAt(metrics.points, metrics.offsets, i) =>
                          MiterAt(metrics.points, metrics.offsets, metrics.result, i)

\* an L of six points comes back as six vertices, moved by offsets that are
\* not all the same
C17_Witness ==
    /\ OffsetReturned
    /\ metrics.result # Null
    /\ Len(metrics.result) = 6
    /\ Cardinality(Range(metrics.offsets)) >= 2

-----------------------------------------------------------------------------
(* C18: offsetPolygon called with all-zero offsets returns the input       *)
(* points unchanged, for every polygon of at least 3 points, including     *)
(* polygons that have a vertex lying on the straight line between its two  *)
(* neighbours (collinear consecutive edges).                               *)

AllZero(offsets) == \A i \in DOMAIN offsets : offsets[i] = QZero

C18_ZeroOffsetsReturnPoints ==
    (/\ OffsetReturned
     /\ Len(metrics.points) >= 3
     /\ Len(metrics.offsets) = Len(metrics.points)
     /\ AllZero(metrics.offsets)) =>
        metrics.result = [i \in DOMAIN metrics.points |-> QPoint(metrics.points[i])]

-----------------------------------------------------------------------------
(* C19: in offsetPolygon, when the two offset edges meeting at vertex i    *)
(* are parallel, output vertex i is the midpoint of the two offset edges'  *)
(* endpoints at vertex i, i.e. the midpoint of vertex i displaced by the   *)
(* previous edge's offset and vertex i displaced by the next edge's        *)
(* offset.                                                                 *)

\* vertex i displaced along the normal of an edge by the offset of the edge
VertexDisplaced(points, i, edge) ==
    [x |-> QAdd(QPoint(points[i]).x, QMul(edge.n.x, edge.o)),
     y |-> QAdd(QPoint(points[i]).y, QMul(edge.n.y, edge.o))]

MidpointAtVertex(points, offsets, i) ==
    Midpoint(VertexDisplaced(points, i, GetEdge(points, offsets, Before(points, i))),
             VertexDisplaced(points, i, GetEdge(points, offsets, i)))

C19_ParallelCornerIsMidpointAtVertex ==
    (OffsetReturned /\ metrics.result # Null) =>
        \A i \in DOMAIN metrics.points :
            ParallelAt(metrics.points, metrics.offsets, i) =>
                metrics.result[i] = MidpointAtVertex(metrics.points, metrics.offsets, i)

-----------------------------------------------------------------------------
(* C20: for every wall that getInnerLengthByWallId reports, the reported   *)
(* value is the minimum of the inner-edge lengths of that wall over all    *)
(* rooms whose boundary contains it, whatever the order of the rooms and   *)
(* also when one of those inner-edge lengths is 0.                         *)

LengthsReturned == metrics.pc = "getInnerLengthByWallId returned"

\* the inner polygon of the r-th room of the call
InnerOf(r) ==
    GetRoomInnerPolygon(metrics.rooms[r], metrics.walls, metrics.defaultWallThickness,
                        metrics.scale)

\* the wall on the i-th edge of the r-th room
WallOfEdge(r, i) ==
    FirstWall(metrics.walls, metrics.rooms[r].nodeIds[i], After(metrics.rooms[r].nodeIds, i))

\* <<wall id, inner length, room, edge>> for the edges of the rooms that
\* have an inner polygon
InnerEdges ==
    UNION {LET inner == InnerOf(r)
           IN IF inner = Null THEN {}
              ELSE {<<WallOfEdge(r, i).id, InnerEdgeLength(inner, i, metrics.scale), r, i>> :
                       i \in DOMAIN metrics.rooms[r].nodeIds} :
           r \in DOMAIN metrics.rooms}

C20_ReportsMinimum ==
    LengthsReturned =>
        LET edges == InnerEdges
        IN \A id \in DOMAIN metrics.map :
               /\ \E e \in edges : e[1] = id /\ e[2] = metrics.map[id]
               /\ \A e \in edges : e[1] = id => ~QLess(e[2], metrics.map[id])

-----------------------------------------------------------------------------
(* C21: for any wall with positive thickness on the boundary of a room     *)
(* whose narrow dimension exceeds the wall thickness, the inner length     *)
(* reported by getInnerLengthByWallId is strictly less than the wall's     *)
(* outer length (node-to-node distance / scale), for convex and non-convex *)
(* (L- or U-shaped) rooms alike.                                           *)

\* the thickness the i-th edge of the r-th room is offset by
ThicknessOfEdge(r, i) ==
    IF WallOfEdge(r, i) = NoWall THEN metrics.defaultWallThickness
    ELSE WallOfEdge(r, i).thickness

\* distance(nodeA, nodeB) / scale
OuterLength(r, i) ==
    QDiv(Distance(QPoint(metrics.rooms[r].points[i]),
                  QPoint(After(metrics.rooms[r].points, i))),
         QInt(metrics.scale))

\* the narrow dimension of a room, in metres: in the rooms drawn here the
\* length of the shortest edge
NarrowDimension(r) ==
    CHOOSE d \in {OuterLength(r, i) : i \in DOMAIN metrics.rooms[r].points} :
        \A i \in DOMAIN metrics.rooms[r].points : ~QLess(OuterLength(r, i), d)

\* every room has a polygon, and every edge of it a thickness above 0 and
\* below the narrow dimension of the room
ThinWalls ==
    \A r \in DOMAIN metrics.rooms :
        \A i \in DOMAIN metrics.rooms[r].nodeIds :
            /\ Len(metrics.rooms[r].points) >= 3
            /\ Len(metrics.rooms[r].points) = Len(metrics.rooms[r].nodeIds)
            /\ ThicknessOfEdge(r, i) > 0
            /\ QLess(QInt(ThicknessOfEdge(r, i)), NarrowDimension(r))

\* the corner at the i-th point of the r-th room turns the way the room does
ConvexAt(r, i) ==
    LET ps == metrics.rooms[r].points
    IN Orient(ps[Before(ps, i)], ps[i], After(ps, i)) = OffsetSign(ps)

\* both ends of the i-th edge of the r-th room are convex corners
ConvexEnds(r, i) ==
    ConvexAt(r, i) /\ ConvexAt(r, (i % Len(metrics.rooms[r].points)) + 1)

-----------------------------------------------------------------------------
(* C22: for each edge (nodeIds[i], nodeIds[i+1]) of a room, the inward     *)
(* offset is half the thickness (times scale) of the lowest-id wall        *)
(* connecting that node pair, independent of the order of the walls in the *)
(* input list and of the wall's a/b direction, and half the default        *)
(* thickness when no wall connects the pair.                               *)

\* the walls that connect u and v, in either direction, as a set
Connecting(u, v) ==
    {metrics.walls[k] : k \in {k \in DOMAIN metrics.walls :
                                  \/ metrics.walls[k].a = u /\ metrics.walls[k].b = v
                                  \/ metrics.walls[k].a = v /\ metrics.walls[k].b = u}}

\* the thickness for the pair: of the connecting wall with the lowest id, or
\* the default
ThicknessFor(u, v) ==
    IF Connecting(u, v) = {} THEN metrics.defaultWallThickness
    ELSE (CHOOSE w \in Connecting(u, v) : \A x \in Connecting(u, v) : w.id <= x.id).thickness

\* the room of the round of rooms.forEach taken last
LastRoom == metrics.rooms[metrics.index]

OffsetsTaken == metrics.pc = "rooms.forEach" /\ metrics.index >= 1

C22_OffsetIsHalfLowestIdThickness ==
    OffsetsTaken =>
        /\ DOMAIN metrics.offsets = DOMAIN LastRoom.nodeIds
        /\ \A i \in DOMAIN LastRoom.nodeIds :
               QMul(metrics.offsets[i], QInt(2)) =
                   QInt(ThicknessFor(LastRoom.nodeIds[i], After(LastRoom.nodeIds, i))
                            * metrics.scale)

\* the offsets of a room were taken with two walls on one of its edges, the
\* one with the higher id first in the list and thicker or thinner than the
\* other
C22_Witness ==
    /\ OffsetsTaken
    /\ \E i \in DOMAIN LastRoom.nodeIds :
           /\ Cardinality(Connecting(LastRoom.nodeIds[i], After(LastRoom.nodeIds, i))) = 2
           /\ metrics.walls[1].id = 8
           /\ metrics.walls[1] \in Connecting(LastRoom.nodeIds[i], After(LastRoom.nodeIds, i))
           /\ metrics.walls[1].thickness #
                  ThicknessFor(LastRoom.nodeIds[i], After(LastRoom.nodeIds, i))
           /\ metrics.offsets[i] # QZero

-----------------------------------------------------------------------------
(* C23: when offsetPolygon yields no valid inner polygon for a room (fewer *)
(* than 3 points, or points and nodeIds of different length), the metrics  *)
(* never fail: getRoomInnerArea returns the outer area, getRoomPerimeter   *)
(* with useInnerPolygon uses the outer points, and getInnerLengthByWallId  *)
(* records no inner length from that room.                                 *)

NoInnerPolygon(room) ==
    Len(room.points) < 3 \/ Len(room.points) # Len(room.nodeIds)

\* twice the signed area of the points of a room
OuterArea2(room) ==
    SumSeq([i \in DOMAIN room.points |->
              room.points[i].x * After(room.points, i).y
                  - After(room.points, i).x * room.points[i].y], 1)

\* the lengths of the edges of the outer polygon, added up
RECURSIVE OuterLengthFrom(_, _)
OuterLengthFrom(room, i) ==
    IF i > Len(room.points) THEN QZero
    ELSE QAdd(Distance(QPoint(room.points[i]), QPoint(After(room.points, i))),
              OuterLengthFrom(room, i + 1))

\* the area and the perimeter were returned for a room without inner polygon
OuterMetricsReturned ==
    (/\ metrics.pc = "room"
     /\ metrics'.pc = "room returned"
     /\ NoInnerPolygon(metrics.room)) =>
        /\ metrics'.area = Q(Abs(OuterArea2(metrics.room)), 2 * metrics.scale * metrics.scale)
        /\ metrics'.perimeter = QDiv(OuterLengthFrom(metrics.room, 1), QInt(metrics.scale))

\* a round of rooms.forEach on a room without inner polygon leaves the map
\* as it is
NoLengthRecorded ==
    (/\ metrics.pc = "rooms.forEach"
     /\ metrics'.pc = "rooms.forEach"
     /\ metrics'.index = metrics.index + 1
     /\ NoInnerPolygon(metrics.rooms[metrics.index + 1])) =>
        metrics'.map = metrics.map

C23_FallsBackToOuter == [][OuterMetricsReturned /\ NoLengthRecorded]_vars

\* the area and the inner perimeter of a room with three points for four
\* node ids were returned
C23_Witness ==
    /\ metrics.pc = "room returned"
    /\ NoInnerPolygon(metrics.room)
    /\ Len(metrics.room.points) >= 3
    /\ metrics.useInnerPolygon
    /\ metrics.area # QZero
    /\ metrics.perimeter # QZero

-----------------------------------------------------------------------------
(* C24: getRoomKey is a canonical key of a room cycle: for a cycle with no *)
(* repeated id, every rotation of the cycle and its reversal give the same *)
(* key, and two cycles that are not rotations or reversals of each other   *)
(* give different keys, so a room name survives a recomputation that       *)
(* returns the same cycle from another start node or in the other          *)
(* direction.                                                              *)

KeyReturned == metrics.pc = "getRoomKey returned"

NoRepeatedId(cycle) == Cardinality(Range(cycle)) = Len(cycle)

C24_KeyIsCanonical ==
    (KeyReturned /\ NoRepeatedId(metrics.cycle)) =>
        \A d \in KeyCycles :
            NoRepeatedId(d) =>
                (GetRoomKey(d) = metrics.key <=> (d = metrics.cycle \/ SameCycle(d, metrics.cycle)))

\* the key of a cycle of four ids was returned, of which the forward and
\* the backward reading compare differently as strings and as numbers
C24_Witness ==
    /\ KeyReturned
    /\ metrics.cycle = <<2, 10, 1, 3>>
    /\ metrics.key = Join(<<1, 10, 2, 3>>)

-----------------------------------------------------------------------------
(* C26: during face tracing, every directed edge traversed by a trace is   *)
(* marked visited, whether or not the trace closes into a face, so that no *)
(* later trace starts from a directed edge that an earlier trace already   *)
(* traversed.                                                              *)

\* the directed edges the trace of the step taken has traversed are in the
\* visited set after the step
TraversedMarked ==
    TraceTaken => Range(Trace(angleMap, OfferedU, OfferedV).traversed) \subseteq visited'

C26_TraversedEdgesVisited == [][TraversedMarked]_vars

-----------------------------------------------------------------------------
(* C27: no directed edge u->v occurs in the cycles of two different faces  *)
(* traced by buildRoomsFromWalls, nor twice within one cycle; hence every  *)
(* wall lies on the boundary of at most two returned rooms.                *)

\* the places <<face, position>> where the directed edge u -> v occurs in
\* the cycles of the faces
PlacesOf(u, v) ==
    {p \in UNION {{<<f, i>> : i \in DOMAIN faces[f].nodeIds} : f \in DOMAIN faces} :
        faces[p[1]].nodeIds[p[2]] = u /\ After(faces[p[1]].nodeIds, p[2]) = v}

\* the rooms with the wall on their boundary, in either direction
RoomsAlong(wall) ==
    {r \in DOMAIN rooms :
        \E i \in DOMAIN rooms[r].nodeIds :
            {rooms[r].nodeIds[i], After(rooms[r].nodeIds, i)} = {wall.a, wall.b}}

C27_EdgeInOneFaceOnly ==
    /\ \A k \in DOMAIN walls :
           /\ Cardinality(PlacesOf(walls[k].a, walls[k].b)) <= 1
           /\ Cardinality(PlacesOf(walls[k].b, walls[k].a)) <= 1
    /\ Done => \A k \in DOMAIN walls : Cardinality(RoomsAlong(walls[k])) <= 2

\* a wall with a returned room on either side
C27_Witness ==
    /\ Done
    /\ \E k \in DOMAIN walls :
           /\ Cardinality(RoomsAlong(walls[k])) = 2
           /\ Cardinality(PlacesOf(walls[k].a, walls[k].b)) = 1
           /\ Cardinality(PlacesOf(walls[k].b, walls[k].a)) = 1

-----------------------------------------------------------------------------
(* C28: appending a second wall between a node pair that is already        *)
(* connected by a wall (a parallel edge, in either a/b direction) does not *)
(* change the result of buildRoomsFromWalls: the same room cycles are      *)
(* returned in the same order.                                             *)

\* an id no wall of the list has
FreshWallId(ws) ==
    1 + (CHOOSE m \in {ws[i].id : i \in DOMAIN ws} : \A i \in DOMAIN ws : ws[i].id <= m)

\* the list with a second wall between the nodes of wall k, turned round
\* or not
WithParallelWall(ws, k, turned) ==
    Append(ws, IF turned THEN W(FreshWallId(ws), ws[k].b, ws[k].a)
               ELSE W(FreshWallId(ws), ws[k].a, ws[k].b))

\* the function is called once more, on the same nodes and the walls with
\* a parallel wall appended, and runs to its return
CallWithParallelWall ==
    /\ pc = "done"
    /\ previous = <<>>
    /\ \E k \in DOMAIN walls, turned \in BOOLEAN :
           walls' = WithParallelWall(walls, k, turned)
    /\ previous' = Append(previous, rooms)
    /\ adjacency' = BuildAdjacency(walls')
    /\ angleMap' = BuildAngleMap(nodes, adjacency')
    /\ LET st == TraceAll(nodes, angleMap', walls', 1,
                          [visited |-> {}, faces |-> <<>>, safety |-> 0, closed |-> FALSE])
       IN /\ visited' = st.visited
          /\ faces' = st.faces
          /\ safety' = st.safety
          /\ closed' = st.closed
          /\ rooms' = RoomsOfFaces(st.faces, adjacency')
    /\ step' = 2 * Len(walls')
    /\ UNCHANGED <<nodes, pc>>
    /\ UNCHANGED <<metrics, app>>

NextParallel == BuildGraph \/ TraceNext \/ ReturnEmpty \/ ReturnRooms \/ CallWithParallelWall

\* the graphs over the square and over the two islands, and the graphs of
\* rooms.test.ts
ParallelInputs ==
    FamilyInputs(Families[2]) \cup FamilyInputs(Families[3]) \cup TestInputs

InitParallel ==
    /\ \E input \in ParallelInputs : nodes = input.nodes /\ walls = input.walls
    /\ pc = "start"
    /\ adjacency = [keys |-> <<>>, nbrs |-> <<>>]
    /\ angleMap = <<>>
    /\ step = 0
    /\ visited = {}
    /\ faces = <<>>
    /\ rooms = <<>>
    /\ previous = <<>>
    /\ safety = 0
    /\ closed = FALSE
    /\ metrics = Resting
    /\ app = Resting

SpecParallel == InitParallel /\ [][NextParallel]_vars

\* the call on the longer list has returned
ParallelReturned == Done /\ previous # <<>>

C28_ParallelWallChangesNothing ==
    ParallelReturned =>
        /\ Len(rooms) = Len(previous[Len(previous)])
        /\ \A r \in DOMAIN rooms : rooms[r].nodeIds = previous[Len(previous)][r].nodeIds

\* two rooms returned again after their shared wall got a parallel wall
C28_Witness ==
    /\ ParallelReturned
    /\ Len(rooms) = 2
    /\ Len(previous[Len(previous)]) = 2
    /\ Cardinality(RoomsAlong(walls[Len(walls)])) = 2

-----------------------------------------------------------------------------
(* The editor (App): the plan, its id counters and useHistory.  The plan   *)
(* is the node list and the wall list; a node is [id, x, y] with exact     *)
(* rational coordinates, a wall is [id, a, b] (name and thickness take no  *)
(* part in what follows).  The selection and the context menu are inputs   *)
(* of the handler that reads them.                                         *)

\* useHistory({ maxEntries }): the longest entry list
maxEntries == 2

\* useHistory({ mergeMs })
mergeMs == 600

\* handlers that call recordHistory, in one session
MaxEdits == 2

\* most entries of selection.nodes
MaxSelected == 2

\* a history label: the kind of the change and the two counts in its text
Label(kind, from, to) == <<kind, from, to>>

\* lastLabelRef.current = ""
NoLabel == Label("", 0, 0)

\* initialLabel
InitialLabel == Label("initial", 0, 0)

\* the points the pointer is pressed at in draw mode
PlanPoints == {[x |-> QInt(0), y |-> QInt(0)], [x |-> QInt(2), y |-> QInt(0)]}

\* distance(node, point) < 0.001
Near(node, point) ==
    LET dx == QSub(node.x, point.x)
        dy == QSub(node.y, point.y)
    IN QLess(QAdd(QMul(dx, dx), QMul(dy, dy)), Q(1, 1000000))

\* the ids of points.map(...) in handleCreateWallChain and
\* handleCreateRoomFromChain: the first node near the point, or a new node;
\* st = [nodes, nodeIdRef, ids]
RECURSIVE CreatedNodes(_, _, _)
CreatedNodes(points, i, st) ==
    IF i > Len(points) THEN st
    ELSE LET near == {k \in DOMAIN st.nodes : Near(st.nodes[k], points[i])}
         IN IF near # {}
            THEN CreatedNodes(points, i + 1,
                     [st EXCEPT !.ids = Append(@, st.nodes[CHOOSE k \in near : \A j \in near : k <= j].id)])
            ELSE CreatedNodes(points, i + 1,
                     [nodes |-> Append(st.nodes, [id |-> st.nodeIdRef, x |-> points[i].x, y |-> points[i].y]),
                      nodeIdRef |-> st.nodeIdRef + 1,
                      ids |-> Append(st.ids, st.nodeIdRef)])

\* the walls pushed between ids[i] and the id after it, count of them
ChainWalls(wallIdRef, ids, count) ==
    [i \in 1..count |-> [id |-> wallIdRef + i - 1, a |-> ids[i], b |-> ids[(i % Len(ids)) + 1]]]

\* createSnapshot(): the plan of the state rendered last
CreateSnapshot(a) == [nodes |-> a.nodes, walls |-> a.walls]

\* the largest id of a list, 0 for the empty list
MaxIdOf(list) ==
    IF Len(list) = 0 THEN 0
    ELSE CHOOSE m \in {list[i].id : i \in DOMAIN list} : \A i \in DOMAIN list : list[i].id <= m

\* applySnapshot(snapshot)
ApplySnapshot(a, snapshot) ==
    [a EXCEPT !.nodes = snapshot.nodes,
              !.walls = snapshot.walls,
              !.nodeIdRef = MaxIdOf(snapshot.nodes) + 1,
              !.wallIdRef = MaxIdOf(snapshot.walls) + 1]

\* recordHistory(label)
RecordHistory(a, label) ==
    IF a.busy THEN a
    ELSE [a EXCEPT !.pending = <<[label |-> label, time |-> a.clock]>>]

\* a render: canUndo and canRedo are read off the refs
Render(a) ==
    [a EXCEPT !.canUndo = a.index > 0,
              !.canRedo = a.index < Len(a.entries) - 1]

\* mutant: the entry list grows without bound
PushedUnbounded(pushed) == pushed

\* if (entriesRef.current.length > maxEntries) entriesRef.current.shift()
Pushed(pushed) == IF Len(pushed) > maxEntries THEN Tail(pushed) ELSE pushed

\* the effect on [createSnapshot, mergeMs, maxEntries, ...watch], run after
\* a render in which the plan has changed; setVersion renders once more
SnapshotEffect(a) ==
    IF a.pending = <<>> \/ a.busy THEN a
    ELSE LET pending == a.pending[1]
             now == pending.time
             taken == [a EXCEPT !.pending = <<>>, !.lastAt = now, !.lastLabel = pending.label]
         IN IF Len(a.entries) > 0 /\ now - a.lastAt < mergeMs /\ a.lastLabel = pending.label
            THEN Render([taken EXCEPT
                     !.entries[Len(a.entries)] =
                         [snapshot |-> CreateSnapshot(a), label |-> @.label, time |-> now]])
            ELSE LET kept == IF a.index < Len(a.entries) - 1
                             THEN SubSeq(a.entries, 1, a.index + 1)
                             ELSE a.entries
                     pushed == Pushed(Append(kept, [snapshot |-> CreateSnapshot(a),
                                                    label |-> pending.label,
                                                    time |-> now]))
                 IN Render([taken EXCEPT !.entries = pushed, !.index = Len(pushed) - 1])

\* the plan has been set: the render and the effects after it
Committed(a) == SnapshotEffect(Render(a))

\* Date.now() has moved on by d, and one more handler has recorded
Later(a, d) == [a EXCEPT !.clock = @ + d, !.edits = @ + 1]

\* handleCreateWallChain(points)
HandleCreateWallChain(a, points) ==
    LET recorded == RecordHistory(a, Label("walls", Len(a.walls), Len(a.walls) + Len(points) - 1))
        st == CreatedNodes(points, 1, [nodes |-> a.nodes, nodeIdRef |-> a.nodeIdRef, ids |-> <<>>])
    IN Committed([recorded EXCEPT
           !.nodes = st.nodes,
           !.nodeIdRef = st.nodeIdRef,
           !.walls = a.walls \o ChainWalls(a.wallIdRef, st.ids, Len(st.ids) - 1),
           !.wallIdRef = a.wallIdRef + Len(st.ids) - 1])

\* handleCreateRoomFromChain(points)
HandleCreateRoomFromChain(a, points) ==
    LET recorded == RecordHistory(a, Label("room", Len(a.walls), Len(a.walls) + Len(points)))
        st == CreatedNodes(points, 1, [nodes |-> a.nodes, nodeIdRef |-> a.nodeIdRef, ids |-> <<>>])
    IN Committed([recorded EXCEPT
           !.nodes = st.nodes,
           !.nodeIdRef = st.nodeIdRef,
           !.walls = a.walls \o ChainWalls(a.wallIdRef, st.ids, Len(st.ids)),
           !.wallIdRef = a.wallIdRef + Len(st.ids)])

\* handleClear()
HandleClear(a) ==
    LET recorded == RecordHistory(a, Label("clear", Len(a.nodes), Len(a.walls)))
    IN Committed([recorded EXCEPT
           !.nodes = <<>>, !.walls = <<>>, !.nodeIdRef = 1, !.wallIdRef = 1])

\* the ids of a selection, lowest first
RECURSIVE Ascending(_)
Ascending(ids) ==
    IF ids = {} THEN <<>>
    ELSE LET least == CHOOSE m \in ids : \A n \in ids : m <= n
         IN <<least>> \o Ascending(ids \ {least})

\* collapseNodes(), selection.nodes = selection
CollapseNodes(a, selection) ==
    IF Cardinality(selection) < 2 THEN a
    ELSE LET recorded == RecordHistory(a, Label("collapse", Cardinality(selection), 1))
             selected == SelectSeq(a.nodes, LAMBDA n : n.id \in selection)
             targetId == selected[1].id
             count == QInt(Len(selected))
             centroid == [x |-> QDiv(QSum([i \in DOMAIN selected |-> selected[i].x], 1), count),
                          y |-> QDiv(QSum([i \in DOMAIN selected |-> selected[i].y], 1), count)]
             removedIds == {selected[i].id : i \in 2..Len(selected)}
             left == SelectSeq(a.nodes, LAMBDA n : n.id \notin removedIds)
             moved == [i \in DOMAIN left |->
                         IF left[i].id = targetId
                         THEN [id |-> targetId, x |-> centroid.x, y |-> centroid.y]
                         ELSE left[i]]
             joined == [i \in DOMAIN a.walls |->
                          [id |-> a.walls[i].id,
                           a |-> IF a.walls[i].a \in removedIds THEN targetId ELSE a.walls[i].a,
                           b |-> IF a.walls[i].b \in removedIds THEN targetId ELSE a.walls[i].b]]
         IN Committed([recorded EXCEPT
                !.nodes = moved,
                !.walls = SelectSeq(joined, LAMBDA w : w.a # w.b)])

\* nextWalls.map(...) of detachNodes for one nodeId: every wall at the
\* node gets a new node of its own; st = [walls, nodes, nodeIdRef]
RECURSIVE DetachFrom(_, _, _, _)
DetachFrom(ws, i, nodeId, st) ==
    IF i > Len(ws) THEN st
    ELSE IF (ws[i].a # nodeId /\ ws[i].b # nodeId)
            \/ ~\E k \in DOMAIN st.nodes : st.nodes[k].id = nodeId
         THEN DetachFrom(ws, i + 1, nodeId, [st EXCEPT !.walls = Append(@, ws[i])])
         ELSE LET node == st.nodes[CHOOSE k \in DOMAIN st.nodes :
                                       /\ st.nodes[k].id = nodeId
                                       /\ \A j \in 1..(k - 1) : st.nodes[j].id # nodeId]
                  newNodeId == st.nodeIdRef
              IN DetachFrom(ws, i + 1, nodeId,
                     [walls |-> Append(st.walls,
                                       IF ws[i].a = nodeId THEN [ws[i] EXCEPT !.a = newNodeId]
                                       ELSE [ws[i] EXCEPT !.b = newNodeId]),
                      nodes |-> Append(st.nodes, [id |-> newNodeId, x |-> node.x, y |-> node.y]),
                      nodeIdRef |-> newNodeId + 1])

\* selection.nodes.forEach of detachNodes
RECURSIVE DetachEach(_, _, _)
DetachEach(order, k, st) ==
    IF k > Len(order) THEN st
    ELSE DetachEach(order, k + 1,
             DetachFrom(st.walls, 1, order[k],
                        [walls |-> <<>>, nodes |-> st.nodes, nodeIdRef |-> st.nodeIdRef]))

\* detachNodes(), selection.nodes = the ids of selection, lowest first
DetachNodes(a, selection) ==
    IF Cardinality(selection) < 1 THEN a
    ELSE LET recorded == RecordHistory(a, Label("detach", Cardinality(selection), 0))
             st == DetachEach(Ascending(selection), 1,
                              [walls |-> a.walls, nodes |-> a.nodes, nodeIdRef |-> a.nodeIdRef])
         IN Committed([recorded EXCEPT
                !.walls = st.walls,
                !.nodeIdRef = st.nodeIdRef,
                !.nodes = SelectSeq(st.nodes,
                              LAMBDA n : \E i \in DOMAIN st.walls :
                                            st.walls[i].a = n.id \/ st.walls[i].b = n.id)])

\* splitWall(), contextMenu.hit = the wall wallId at hitPoint
SplitWall(a, wallId, hitPoint) ==
    IF ~\E i \in DOMAIN a.walls : a.walls[i].id = wallId
    THEN RecordHistory(a, Label("split", wallId, 2))
    ELSE LET recorded == RecordHistory(a, Label("split", wallId, 2))
             wall == a.walls[CHOOSE i \in DOMAIN a.walls :
                                 /\ a.walls[i].id = wallId
                                 /\ \A j \in 1..(i - 1) : a.walls[j].id # wallId]
             newNodeId == a.nodeIdRef
         IN Committed([recorded EXCEPT
                !.nodeIdRef = newNodeId + 1,
                !.nodes = Append(a.nodes, [id |-> newNodeId, x |-> hitPoint.x, y |-> hitPoint.y]),
                !.walls = SelectSeq(a.walls, LAMBDA w : w.id # wallId)
                          \o <<[id |-> a.wallIdRef, a |-> wall.a, b |-> newNodeId],
                               [id |-> a.wallIdRef + 1, a |-> newNodeId, b |-> wall.b]>>,
                !.wallIdRef = a.wallIdRef + 2])

\* the first node of the list with the id
NodeById(ns, id) ==
    ns[CHOOSE k \in DOMAIN ns : ns[k].id = id /\ \A j \in 1..(k - 1) : ns[j].id # id]

\* a point of a wall the pointer can hit: the middle of it
HitPoint(a, wall) ==
    [x |-> QDiv(QAdd(NodeById(a.nodes, wall.a).x, NodeById(a.nodes, wall.b).x), QInt(2)),
     y |-> QDiv(QAdd(NodeById(a.nodes, wall.a).y, NodeById(a.nodes, wall.b).y), QInt(2))]

\* [wallA.a, wallA.b].find((id) => id === wallB.a || id === wallB.b)
SharedNode(wallA, wallB) == {wallA.a, wallA.b} \cap {wallB.a, wallB.b}

\* setAngleBetweenWalls() with two walls selected that share no node: the
\* change is recorded and the handler returns at if (!shared)
SetAngleBetweenWalls(a, wallA, wallB) ==
    IF SharedNode(wallA, wallB) = {} THEN RecordHistory(a, Label("angle", 0, 0))
    ELSE a

\* lastAtRef.current = 0; lastLabelRef.current = ""
Restarted(a) == [a EXCEPT !.lastAt = 0, !.lastLabel = NoLabel]

\* the part undo, redo and jumpTo share: the entry at the index is applied
\* with busyRef set, then the state applied is rendered
Restore(a, index) ==
    LET entry == a.entries[index + 1]
        applied == ApplySnapshot([a EXCEPT !.index = index, !.busy = TRUE], entry.snapshot)
    IN Committed(Restarted([applied EXCEPT !.busy = FALSE]))

\* undo()
Undo(a) == IF a.index <= 0 THEN a ELSE Restore(a, a.index - 1)

\* redo()
Redo(a) == IF a.index >= Len(a.entries) - 1 THEN a ELSE Restore(a, a.index + 1)

\* jumpTo(index)
JumpTo(a, index) ==
    IF index < 0 \/ index >= Len(a.entries) THEN a
    ELSE IF index = a.index THEN a
    ELSE Restore(a, index)

-----------------------------------------------------------------------------
(* The editor as a state machine: one action per handler, the render and   *)
(* the effects that follow it included.                                    *)

\* what Date.now() has moved on by since the handler before: within
\* mergeMs, or not
Delays == {1, mergeMs}

\* the chains draw mode passes to onCreateWallChain: the two points of a
\* second press, and a chain of points pressed with shift held
WallChains ==
    {<<p, q>> : p, q \in PlanPoints}
    \cup {<<[x |-> QInt(0), y |-> QInt(0)], [x |-> QInt(2), y |-> QInt(0)],
             [x |-> QInt(2), y |-> QInt(2)], [x |-> QInt(0), y |-> QInt(2)]>>}

\* a chain draw mode passes to onCreateRoomFromChain
RoomChains ==
    {<<[x |-> QInt(0), y |-> QInt(0)], [x |-> QInt(2), y |-> QInt(0)], [x |-> QInt(0), y |-> QInt(2)]>>}

NodeIds(a) == {a.nodes[i].id : i \in DOMAIN a.nodes}

\* the selections of nodes a handler can find
Selections(a) == {ids \in SUBSET NodeIds(a) : Cardinality(ids) \in 1..MaxSelected}

\* the editor after mount: the first effect of useHistory has put the
\* initial entry into the list
Mounted ==
    Render([pc |-> "mounted",
            nodes |-> <<>>, walls |-> <<>>, nodeIdRef |-> 1, wallIdRef |-> 1,
            entries |-> <<[snapshot |-> [nodes |-> <<>>, walls |-> <<>>],
                           label |-> InitialLabel, time |-> mergeMs]>>,
            index |-> 0, pending |-> <<>>, busy |-> FALSE,
            lastAt |-> 0, lastLabel |-> NoLabel,
            canUndo |-> FALSE, canRedo |-> FALSE,
            clock |-> mergeMs, edits |-> 0])

InitEditor ==
    /\ app = Mounted
    /\ metrics = Resting
    /\ nodes = <<>>
    /\ walls = <<>>
    /\ pc = "rest"
    /\ adjacency = [keys |-> <<>>, nbrs |-> <<>>]
    /\ angleMap = <<>>
    /\ step = 0
    /\ visited = {}
    /\ faces = <<>>
    /\ rooms = <<>>
    /\ previous = <<>>
    /\ safety = 0
    /\ closed = FALSE

CreateWallChain ==
    /\ app.edits < MaxEdits
    /\ \E d \in Delays, points \in WallChains :
           app' = HandleCreateWallChain(Later(app, d), points)
    /\ UNCHANGED <<roomVars, metrics>>

CreateRoomFromChain ==
    /\ app.edits < MaxEdits
    /\ \E d \in Delays, points \in RoomChains :
           app' = HandleCreateRoomFromChain(Later(app, d), points)
    /\ UNCHANGED <<roomVars, metrics>>

Clear ==
    /\ app.edits < MaxEdits
    /\ \E d \in Delays : app' = HandleClear(Later(app, d))
    /\ UNCHANGED <<roomVars, metrics>>

Collapse ==
    /\ app.edits < MaxEdits
    /\ \E d \in Delays, selection \in Selections(app) :
           /\ Cardinality(selection) >= 2
           /\ app' = CollapseNodes(Later(app, d), selection)
    /\ UNCHANGED <<roomVars, metrics>>

Detach ==
    /\ app.edits < MaxEdits
    /\ \E d \in Delays, selection \in Selections(app) :
           app' = DetachNodes(Later(app, d), selection)
    /\ UNCHANGED <<roomVars, metrics>>

Split ==
    /\ app.edits < MaxEdits
    /\ \E d \in Delays, i \in DOMAIN app.walls :
           app' = SplitWall(Later(app, d), app.walls[i].id, HitPoint(app, app.walls[i]))
    /\ UNCHANGED <<roomVars, metrics>>

SetAngle ==
    /\ app.edits < MaxEdits
    /\ \E d \in Delays, i, j \in DOMAIN app.walls :
           /\ i # j
           /\ SharedNode(app.walls[i], app.walls[j]) = {}
           /\ app' = SetAngleBetweenWalls(Later(app, d), app.walls[i], app.walls[j])
    /\ UNCHANGED <<roomVars, metrics>>

UndoPressed ==
    /\ app' = Undo(app)
    /\ UNCHANGED <<roomVars, metrics>>

RedoPressed ==
    /\ app' = Redo(app)
    /\ UNCHANGED <<roomVars, metrics>>

HistoryJump ==
    /\ \E index \in 0..(maxEntries - 1) : app' = JumpTo(app, index)
    /\ UNCHANGED <<roomVars, metrics>>

NextEditor ==
    \/ CreateWallChain \/ CreateRoomFromChain \/ Clear \/ Collapse \/ Detach
    \/ Split \/ SetAngle \/ UndoPressed \/ RedoPressed \/ HistoryJump

SpecEditor == InitEditor /\ [][NextEditor]_vars

-----------------------------------------------------------------------------
(* C25: after any sequence of editor operations (create wall chain, create *)
(* room from chain, split wall, collapse nodes, detach nodes, clear, undo, *)
(* redo), every wall in the graph has a # b and both endpoint ids are ids  *)
(* of nodes in the node list.                                              *)

C25_WallsJoinTwoNodes ==
    \A i \in DOMAIN app.walls :
        /\ app.walls[i].a # app.walls[i].b
        /\ app.walls[i].a \in NodeIds(app)
        /\ app.walls[i].b \in NodeIds(app)

-----------------------------------------------------------------------------
(* C29: in useHistory, after initialisation and after any sequence of      *)
(* recordHistory-then-state-change, undo, redo and jumpTo, the entry list  *)
(* has between 1 and maxEntries entries and the current index satisfies    *)
(* 0 <= index <= entries.length - 1; canUndo is true exactly when          *)
(* index > 0 and canRedo exactly when index < entries.length - 1.          *)

C29_HistoryWithinBounds ==
    /\ Len(app.entries) \in 1..maxEntries
    /\ app.index \in 0..(Len(app.entries) - 1)
    /\ app.canUndo <=> app.index > 0
    /\ app.canRedo <=> app.index < Len(app.entries) - 1

\* the list is full, its first entry has been shifted out, and an undo has
\* moved the index off the end
C29_Witness ==
    /\ Len(app.entries) = maxEntries
    /\ app.entries[1].label # InitialLabel
    /\ app.index < Len(app.entries) - 1
    /\ app.canRedo
    /\ app.pending = <<>>

-----------------------------------------------------------------------------
(* C30: in useHistory, undo, redo and jumpTo only move the current index   *)
(* and apply that entry's snapshot: they never add, remove or overwrite a  *)
(* history entry, also not through the snapshot effect that runs when the  *)
(* restored state is applied, even if recordHistory was called earlier     *)
(* without any state change following it; so an undo followed by a redo    *)
(* restores the same entry with the same entry list.                       *)

\* a step of undo, redo or jumpTo that has got past the early returns
HistoryMoved == (UndoPressed \/ RedoPressed \/ HistoryJump) /\ app' # app

\* the entries are the ones before and the plan is the entry's at the index
OnlyMoved ==
    /\ app'.entries = app.entries
    /\ CreateSnapshot(app') = app.entries[app'.index + 1].snapshot

\* a redo right after the undo is back at the entry, in the same list
RedoRestores ==
    /\ Redo(app').index = app.index
    /\ Redo(app').entries = app.entries
    /\ CreateSnapshot(Redo(app')) = app.entries[app.index + 1].snapshot

C30_MovesLeaveEntriesAlone ==
    [][(HistoryMoved => OnlyMoved) /\ (UndoPressed /\ app' # app => RedoRestores)]_vars

====
